---- MODULE Spec2Model ----
(***************************************************************************)
(* ICoordinator: the shape store and undo/redo history of DataManager      *)
(* (src/unnamed/part_003) and the pointer/keyboard state machine of        *)
(* CanvasManager (src/js/canvas-manager.js).                               *)
(*                                                                         *)
(* The two objects are the record-valued variables dm and cm; every method *)
(* is an operator from the objects before the call to the objects after    *)
(* it, so a handler that calls several DataManager methods is the          *)
(* composition of their operators.  gh is a history (ghost) variable: it   *)
(* records which event ran last and the snapshots the properties compare   *)
(* against; no operator of the program reads it.                           *)
(***************************************************************************)
EXTENDS Integers, Sequences, FiniteSets, TLC

VARIABLES dm, cm, gh

vars == <<dm, cm, gh>>

(***************************************************************************)
(* Bounds of the exploration.                                              *)
(***************************************************************************)
\* shapes per layout
MaxZones == 2
\* layouts in a project
MaxLayouts == 2
\* undo entries the editing specifications explore (maxHistory is 50)
MaxUndo == 2
\* vertices in the multi-point buffer
MaxPoly == 3
\* undo entries the specification of the layout calls explores
MaxLayoutEdits == 1
\* vertices in the drawing buffer while a stored polyline is extended
MaxExtend == 4
\* undo entries pushed in the specification that fills the undo stack
MaxPushes == 52
\* undo entries the specification of the selection gestures explores
MaxPresses == 3
\* undo entries of the z-order specification
MaxOrderEdits == 4
\* undo entries of the specification of the activity links
MaxLinkEdits == 3
\* wheel notches in one behaviour of the zoom specification
MaxNotches == 3
\* largest denominator of the view offset a zoom step starts from
MaxDen == 3000
\* shapes drawn in the specifications of the drawing gestures: a gesture
\* of SpecDraw starts with fewer shapes stored, a press of SpecEscape comes
\* with fewer entries on the undo stack
MaxDrawn == 1

(***************************************************************************)
(* Program constants.                                                      *)
(***************************************************************************)
\* DataManager.maxHistory
maxHistory == 50
\* screen-pixel radius of the closing press, of a handle and of a line hit
HitRadius == 10
\* the size of the canvas resizeCanvas takes from its wrapper, in pixels
Canvas == [width |-> 900, height |-> 600]
\* handleWheel: the zoom step and the clamp of the scale (0.1, 0.1 and 5),
\* in tenths
zoomIntensity == 1
MinScale == 1
MaxScale == 50
\* id of the layout the constructor creates ('default')
DefaultLayout == 1

(***************************************************************************)
(* Values.  Coordinates are integers in model space; the view scale is     *)
(* kept in tenths (scale 1.0 is 10), so "dist < 10 / scale" is             *)
(* dist * scale10 < 100.                                                   *)
(***************************************************************************)
Pt(a, b) == [x |-> a, y |-> b]

\* JS null / undefined for an id-valued field
NoId == 0

Min(S) == CHOOSE m \in S : \A n \in S : m <= n
Max(S) == CHOOSE m \in S : \A n \in S : m >= n
Abs(n) == IF n < 0 THEN -n ELSE n

SeqToSet(s) == {s[i] : i \in DOMAIN s}
Reverse(s) == [i \in 1..Len(s) |-> s[Len(s) + 1 - i]]

\* A string is the sequence of its characters; '' (and a missing field)
\* is <<>>.  The letters that have an upper case here are A and B.
toLowerChar(ch) == IF ch = "A" THEN "a" ELSE IF ch = "B" THEN "b" ELSE ch

toLowerCase(str) == [i \in 1..Len(str) |-> toLowerChar(str[i])]

\* String.prototype.includes
includes(str, search) ==
    \E i \in 0..(Len(str) - Len(search)) : SubSeq(str, i + 1, i + Len(search)) = search

\* String.prototype.trim (the white space here is " ")
RECURSIVE trimStart(_)
trimStart(str) ==
    IF str # <<>> /\ Head(str) = " " THEN trimStart(Tail(str)) ELSE str

trim(str) == Reverse(trimStart(Reverse(trimStart(str))))

\* the value of a decimal digit, -1 for any other character
digitOf(ch) ==
    CASE ch = "0" -> 0 [] ch = "1" -> 1 [] ch = "2" -> 2 [] ch = "3" -> 3
      [] ch = "4" -> 4 [] ch = "5" -> 5 [] ch = "6" -> 6 [] ch = "7" -> 7
      [] ch = "8" -> 8 [] ch = "9" -> 9 [] OTHER -> -1

\* NaN, for strings of weeks (a week is never negative)
NaN == -1

\* parseInt(str, 10) of a string without sign: leading white space is
\* skipped and the longest run of digits is read; NaN when there is none
RECURSIVE readDigits(_, _)
readDigits(str, acc) ==
    IF str = <<>> \/ digitOf(Head(str)) < 0 THEN acc
    ELSE readDigits(Tail(str), 10 * (IF acc = NaN THEN 0 ELSE acc) + digitOf(Head(str)))

parseInt(str) == readDigits(trimStart(str), NaN)

\* parseFloat(str) of a string without decimal point or exponent: leading
\* white space is skipped, then a sign and the longest run of digits are
\* read; nan when there is no digit
parseFloat(str) ==
    LET s == trimStart(str)
        signed == s # <<>> /\ Head(s) \in {"-", "+"}
        n == readDigits(IF signed THEN Tail(s) ELSE s, NaN)
    IN  [nan |-> n = NaN,
         value |-> IF n = NaN THEN 0
                   ELSE IF signed /\ Head(s) = "-" THEN -n ELSE n]

\* what prompt() returns: null when the dialog is cancelled, the text of
\* the input field otherwise
Cancelled == [cancelled |-> TRUE, text |-> <<>>]
Text(str) == [cancelled |-> FALSE, text |-> str]

\* String.prototype.split('-'): the parts between the dashes
RECURSIVE split(_)
split(str) ==
    IF \A i \in DOMAIN str : str[i] # "-" THEN <<str>>
    ELSE LET k == Min({i \in DOMAIN str : str[i] = "-"})
         IN  <<SubSeq(str, 1, k - 1)>> \o split(SubSeq(str, k + 1, Len(str)))

\* A date string 'YYYY-MM-DD' is the tuple of its three numbers, null or
\* '' the empty tuple; strings of this form compare as their tuples do.
Date(y, m, d) == <<y, m, d>>
NoDate == <<>>

dateLess(a, b) ==
    \/ a[1] < b[1]
    \/ a[1] = b[1] /\ a[2] < b[2]
    \/ a[1] = b[1] /\ a[2] = b[2] /\ a[3] < b[3]

\* the number of days from 1970-01-01 to day d of the month mp months after
\* March of the year y that starts with March (proleptic Gregorian calendar)
civilDays(y, mp, d) ==
    365 * y + y \div 4 - y \div 100 + y \div 400 + (153 * mp + 2) \div 5 + d - 1 - 719468

\* new Date('YYYY-MM-DD'): midnight UTC of the day, as the number of days
\* since 1970-01-01.  The local time zone is taken to be UTC or east of it,
\* where getFullYear / getMonth / getDate give the day of the string.
newDate(date) ==
    IF date[2] > 2 THEN civilDays(date[1], date[2] - 3, date[3])
    ELSE civilDays(date[1] - 1, date[2] + 9, date[3])

\* Date.prototype.getUTCDay: 0 is Sunday (1970-01-01 was a Thursday)
getUTCDay(day) == (day + 4) % 7

\* the years dates are taken from
Years == 2023..2026

\* Date.prototype.getUTCFullYear
getUTCFullYear(day) ==
    CHOOSE y \in Years : newDate(Date(y, 1, 1)) <= day /\ day < newDate(Date(y + 1, 1, 1))

\* d.setUTCDate(d.getUTCDate() + 4 - dayNum): the Thursday of the week
thursdayOf(date) == date + 4 - (IF getUTCDay(date) = 0 THEN 7 ELSE getUTCDay(date))

\* Math.ceil((((d - yearStart) / 86400000) + 1) / 7)
weekOfYear(d) == ((d - newDate(Date(getUTCFullYear(d), 1, 1))) + 1 + 6) \div 7

\* getWeekNumber(date): the ISO week of the Thursday of the date's week
getWeekNumber(date) == weekOfYear(thursdayOf(date))

\* A shape.  Fields a kind does not have are 0 / <<>>.
\* A rotation is kept as the direction (pointer - centre) it was computed
\* from, reduced to lowest terms: atan2(dy, dx) * 180 / PI + 90 is one-to-one
\* on reduced directions.  Pt(0, 0) is "no rotation field"; the literal 0 a
\* dropped symbol starts with is the direction straight up, Pt(0, -1).
NoRotation == Pt(0, 0)

\* A schedule activity as a shape links it: { code, start, end, title },
\* start and end being 'YYYY-MM-DD' strings (formatDate) or ''.
Activity(code, title, start, end) ==
    [code |-> code, title |-> title, start |-> start, end |-> end]

\* customData._connectedActivities: undefined until the first link, an
\* array from then on
NoActivities == [defined |-> FALSE, list |-> <<>>]
Activities(list) == [defined |-> TRUE, list |-> list]

\* The custom data of a shape is kept in three parts: customData holds the
\* values of the custom fields, originalData the values of the schedule row
\* last linked (handleDrop spreads the row into customData, so a later row
\* of the same sheet replaces them) and connectedActivities the array under
\* the key _connectedActivities.  No operation writes the legacy keys
\* _activityCode, _startDate and _endDate; shapes carry none.
\* status is the status id a new shape of the type is created with: ''
\* for the line tools and text, 'planned' for the others
Zone(id, type, x, y, w, h, x2, y2, points) ==
    [id |-> id, type |-> type, x |-> x, y |-> y, width |-> w, height |-> h,
     x2 |-> x2, y2 |-> y2, rotation |-> NoRotation, points |-> points,
     hidden |-> FALSE,
     status |-> IF type \in {"measure-length", "arrow", "line", "text", "none"}
                THEN "" ELSE "planned",
     name |-> <<>>, comments |-> <<>>, contact |-> <<>>, freetext |-> <<>>,
     customData |-> <<>>, discipline |-> "",
     startDate |-> NoDate, endDate |-> NoDate, date |-> NoDate,
     connectedActivities |-> NoActivities, originalData |-> <<>>]

NoZone == Zone(NoId, "none", 0, 0, 0, 0, 0, 0, <<>>)

\* A background image (the data URL a layout stores, the Image or canvas
\* the view holds), by its size in pixels; NoImage is null.
Image(w, h) == [width |-> w, height |-> h]
NoImage == Image(0, 0)

\* A pan { x, y } in tenths of a pixel: the fractions x / den and y / den.
Pan(x, y, den) == [x |-> x, y |-> y, den |-> den]

(***************************************************************************)
(* DataManager                                                             *)
(***************************************************************************)
\* JSON.parse(JSON.stringify(zones)): a fresh array of fresh objects, field by
\* field.  Every stored field is a finite number, a string, an array of
\* points or an object of strings, which the round trip reproduces.
deepCopy(zones) ==
    [i \in 1..Len(zones) |->
        [id |-> zones[i].id, type |-> zones[i].type,
         x |-> zones[i].x, y |-> zones[i].y,
         width |-> zones[i].width, height |-> zones[i].height,
         x2 |-> zones[i].x2, y2 |-> zones[i].y2,
         rotation |-> [x |-> zones[i].rotation.x, y |-> zones[i].rotation.y],
         points |-> [j \in 1..Len(zones[i].points) |->
                        [x |-> zones[i].points[j].x, y |-> zones[i].points[j].y]],
         hidden |-> zones[i].hidden, status |-> zones[i].status,
         name |-> zones[i].name, comments |-> zones[i].comments,
         contact |-> zones[i].contact, freetext |-> zones[i].freetext,
         customData |-> [j \in 1..Len(zones[i].customData) |-> zones[i].customData[j]],
         discipline |-> zones[i].discipline,
         startDate |-> zones[i].startDate, endDate |-> zones[i].endDate,
         date |-> zones[i].date,
         connectedActivities |->
            [defined |-> zones[i].connectedActivities.defined,
             list |-> [j \in 1..Len(zones[i].connectedActivities.list) |->
                        Activity(zones[i].connectedActivities.list[j].code,
                                 zones[i].connectedActivities.list[j].title,
                                 zones[i].connectedActivities.list[j].start,
                                 zones[i].connectedActivities.list[j].end)]],
         originalData |-> [j \in 1..Len(zones[i].originalData) |-> zones[i].originalData[j]]]]

layoutIds(d) == {d.layouts[i].id : i \in DOMAIN d.layouts}

getActiveLayout(d) ==
    LET m == {i \in DOMAIN d.layouts : d.layouts[i].id = d.activeLayoutId}
    IN  IF m # {} THEN d.layouts[Min(m)] ELSE d.layouts[1]

getLayout(d, id) ==
    LET m == {i \in DOMAIN d.layouts : d.layouts[i].id = id}
    IN  d.layouts[Min(m)]

\* A calibration factor distPixels / meters is kept as the pair (square of
\* distPixels, meters); the default 50 px/m is sqrt(2500) / 1.
Cal(d2, meters) == [d2 |-> d2, meters |-> meters]
DefaultCal == Cal(2500, 1)

\* the calibration factor written into every layout
setCalibrationScaleOfAll(d, cal) ==
    [d EXCEPT !.layouts =
        [i \in DOMAIN d.layouts |-> [d.layouts[i] EXCEPT !.calibrationScale = cal]]]

\* updateActiveLayout({ calibrationScale: cal })
setCalibrationScale(d, cal) ==
    [d EXCEPT !.layouts =
        [i \in DOMAIN d.layouts |->
            IF d.layouts[i].id = d.activeLayoutId
            THEN [d.layouts[i] EXCEPT !.calibrationScale = cal]
            ELSE d.layouts[i]]]

\* setBackgroundImage(dataUrl): updateActiveLayout({ backgroundImage: dataUrl })
setBackgroundImage(d, dataUrl) ==
    [d EXCEPT !.layouts =
        [i \in DOMAIN d.layouts |->
            IF d.layouts[i].id = d.activeLayoutId
            THEN [d.layouts[i] EXCEPT !.backgroundImage = dataUrl]
            ELSE d.layouts[i]]]

\* updateActiveLayout({ scale: scale, pan: pan })
setViewState(d, scale, pan) ==
    [d EXCEPT !.layouts =
        [i \in DOMAIN d.layouts |->
            IF d.layouts[i].id = d.activeLayoutId
            THEN [d.layouts[i] EXCEPT !.scale = scale, !.pan = pan]
            ELSE d.layouts[i]]]

\* updateActiveLayout({ zones: zs })
updateActiveLayout(d, zs) ==
    [d EXCEPT !.layouts =
        [i \in DOMAIN d.layouts |->
            IF d.layouts[i].id = d.activeLayoutId
            THEN [d.layouts[i] EXCEPT !.zones = zs]
            ELSE d.layouts[i]]]

\* a setActiveLayout() that would take any id
setActiveLayoutUnchecked(d, layoutId) == [d EXCEPT !.activeLayoutId = layoutId]

setActiveLayout(d, layoutId) ==
    IF layoutId \in layoutIds(d) THEN [d EXCEPT !.activeLayoutId = layoutId] ELSE d

\* a saveState() that would never discard an entry
saveStateUncapped(d) ==
    LET layout == getActiveLayout(d)
    IN  [d EXCEPT !.redoStack = <<>>,
                  !.history = Append(d.history,
                         [layoutId |-> layout.id, zones |-> deepCopy(layout.zones)])]

\* a saveState() that would leave the redo stack alone
saveStateKeepingRedo(d) ==
    LET layout == getActiveLayout(d)
        pushed == Append(d.history,
                         [layoutId |-> layout.id, zones |-> deepCopy(layout.zones)])
    IN  [d EXCEPT !.history = IF Len(pushed) > maxHistory THEN Tail(pushed) ELSE pushed]

saveState(d) ==
    LET layout == getActiveLayout(d)
        pushed == Append(d.history,
                         [layoutId |-> layout.id, zones |-> deepCopy(layout.zones)])
    IN  [d EXCEPT !.redoStack = <<>>,
                  !.history = IF Len(pushed) > maxHistory THEN Tail(pushed) ELSE pushed]

\* an undo() that would record the current state before looking at the stack
undoRecordingFirst(d) ==
    LET layout == getActiveLayout(d)
        currentState == [layoutId |-> layout.id, zones |-> deepCopy(layout.zones)]
        d1 == [d EXCEPT !.redoStack = Append(d.redoStack, currentState)]
    IN  IF Len(d.history) = 0 THEN d1
        ELSE updateActiveLayout(
                 [d1 EXCEPT !.history = SubSeq(d.history, 1, Len(d.history) - 1)],
                 d.history[Len(d.history)].zones)

undo(d) ==
    IF Len(d.history) = 0 THEN d
    ELSE LET layout == getActiveLayout(d)
             currentState == [layoutId |-> layout.id, zones |-> deepCopy(layout.zones)]
             previousState == d.history[Len(d.history)]
             d1 == [d EXCEPT !.redoStack = Append(d.redoStack, currentState),
                             !.history = SubSeq(d.history, 1, Len(d.history) - 1)]
             d2 == IF previousState.layoutId # layout.id
                   THEN setActiveLayout(d1, previousState.layoutId)
                   ELSE d1
         IN  updateActiveLayout(d2, previousState.zones)

\* a redo() that would not push the current state on the undo stack
redoWithoutPush(d) ==
    IF Len(d.redoStack) = 0 THEN d
    ELSE updateActiveLayout([d EXCEPT !.redoStack = SubSeq(d.redoStack, 1, Len(d.redoStack) - 1)],
                            d.redoStack[Len(d.redoStack)].zones)

redo(d) ==
    IF Len(d.redoStack) = 0 THEN d
    ELSE LET layout == getActiveLayout(d)
             currentState == [layoutId |-> layout.id, zones |-> deepCopy(layout.zones)]
             nextState == d.redoStack[Len(d.redoStack)]
             d1 == [d EXCEPT !.history = Append(d.history, currentState),
                             !.redoStack = SubSeq(d.redoStack, 1, Len(d.redoStack) - 1)]
             d2 == IF nextState.layoutId # layout.id
                   THEN setActiveLayout(d1, nextState.layoutId)
                   ELSE d1
         IN  updateActiveLayout(d2, nextState.zones)

addZone(d, zone) ==
    LET d1 == saveState(d)
    IN  updateActiveLayout(d1, Append(getActiveLayout(d1).zones, zone))

\* an updateZone() that would record history whatever its flag says
updateZoneAlwaysSaving(d, updatedZone, saveHistory) ==
    LET d1 == saveState(d)
        zs == getActiveLayout(d1).zones
    IN  updateActiveLayout(d1,
            [i \in 1..Len(zs) |-> IF zs[i].id = updatedZone.id THEN updatedZone ELSE zs[i]])

updateZone(d, updatedZone, saveHistory) ==
    LET d1 == IF saveHistory THEN saveState(d) ELSE d
        zs == getActiveLayout(d1).zones
    IN  updateActiveLayout(d1,
            [i \in 1..Len(zs) |-> IF zs[i].id = updatedZone.id THEN updatedZone ELSE zs[i]])

deleteZone(d, zoneId) ==
    LET d1 == saveState(d)
        keep(z) == z.id # zoneId
    IN  updateActiveLayout(d1, SelectSeq(getActiveLayout(d1).zones, keep))

\* undefined (NoZone) when no shape of the active layout has the id
getZone(d, zoneId) ==
    LET zs == getActiveLayout(d).zones
        m == {i \in 1..Len(zs) : zs[i].id = zoneId}
    IN  IF m = {} THEN NoZone ELSE zs[Min(m)]

\* 'layout_' + Date.now(): an id no layout and no history entry carries
newLayoutId(d) ==
    LET used == layoutIds(d)
                \cup {d.history[i].layoutId : i \in DOMAIN d.history}
                \cup {d.redoStack[i].layoutId : i \in DOMAIN d.redoStack}
    IN  Min({n \in 1..(Cardinality(used) + 1) : n \notin used})

addLayout(d) ==
    LET newLayout == [id |-> newLayoutId(d), zones |-> <<>>,
                      backgroundImage |-> NoImage, scale |-> 10,
                      calibrationScale |-> DefaultCal, pan |-> Pan(0, 0, 1)]
    IN  [d EXCEPT !.layouts = Append(d.layouts, newLayout),
                  !.activeLayoutId = newLayout.id]

deleteLayout(d, layoutId) ==
    IF Len(d.layouts) <= 1 THEN d
    ELSE LET keep(l) == l.id # layoutId
             newLayouts == SelectSeq(d.layouts, keep)
         IN  [d EXCEPT !.layouts = newLayouts,
                       !.activeLayoutId = IF d.activeLayoutId = layoutId
                                          THEN newLayouts[1].id
                                          ELSE d.activeLayoutId]

\* the filters of the constructor and of resetFilters: every criterion
\* empty (= all) and showHidden off; weeks is the list the week dropdown
\* sets, absent until then
NoFilters == [text |-> <<>>, disciplines |-> {}, statuses |-> {},
              dateStart |-> NoDate, dateEnd |-> NoDate, week |-> <<>>,
              weeks |-> {}, showHidden |-> FALSE]

resetFilters(d) == [d EXCEPT !.filters = NoFilters]

\* setFilters(newFilters): { ...this.state.filters, ...newFilters }
setFilters(d, newFilters) ==
    [d EXCEPT !.filters = [k \in DOMAIN d.filters |->
                              IF k \in DOMAIN newFilters THEN newFilters[k]
                              ELSE d.filters[k]]]

\* the state the constructor builds (no stored project)
dmInit ==
    [layouts |-> <<[id |-> DefaultLayout, zones |-> <<>>,
                    backgroundImage |-> NoImage, scale |-> 10,
                    calibrationScale |-> DefaultCal, pan |-> Pan(0, 0, 1)]>>,
     activeLayoutId |-> DefaultLayout,
     filters |-> NoFilters,
     zoneNameMode |-> "activity",
     history |-> <<>>,
     redoStack |-> <<>>]

activeZones(d) == getActiveLayout(d).zones

(***************************************************************************)
(* CanvasManager: geometry                                                 *)
(***************************************************************************)
R(c, d) == [cm |-> c, dm |-> d]

PolyKinds == {"polygon", "cloud", "measure-area", "draw-poly"}
LineKinds == {"measure-length", "arrow", "line"}
PolyTools == {"poly", "cloud", "measure-area", "draw-poly"}
LineTools == {"measure-length", "arrow", "line"}
BoxTools == {"draw", "ellipse", "draw-rect"}

Sq(n) == n * n
Dist2(p, q) == Sq(p.x - q.x) + Sq(p.y - q.y)

\* dist < 10 / this.scale, for a distance given by its square
Within(d2, c) == d2 * Sq(c.scale) < Sq(HitRadius * 10)
\* Math.abs(a - b) < 10 / this.scale
Near(a, b, c) == Abs(a - b) * c.scale < HitRadius * 10

\* a * sqrt(L) < b, exactly (L > 0)
LtSqrt(a, L, b) ==
    IF a >= 0 THEN b > 0 /\ Sq(a) * L < Sq(b)
    ELSE b >= 0 \/ Sq(a) * L > Sq(b)

\* Math.abs(pos - (p0 + (dx / len) * (k / this.scale))) < 10 / this.scale,
\* with len = sqrt(L); false when len = 0 (dx / len is NaN)
NearOffset(pos, p0, dx, L, k, c) ==
    /\ L > 0
    /\ LtSqrt((pos - p0) * c.scale - HitRadius * 10, L, 10 * k * dx)
    /\ LtSqrt(-((pos - p0) * c.scale + HitRadius * 10), L, -(10 * k * dx))

\* distToSegment(p, v, w) < 10 / this.scale
distToSegmentWithin(p, v, w, c) ==
    LET l2 == Dist2(v, w)
        dot == (p.x - v.x) * (w.x - v.x) + (p.y - v.y) * (w.y - v.y)
    IN  IF l2 = 0 THEN Within(Dist2(p, v), c)
        ELSE IF dot <= 0 THEN Within(Dist2(p, v), c)
        ELSE IF dot >= l2 THEN Within(Dist2(p, w), c)
        ELSE (Dist2(p, v) * l2 - Sq(dot)) * Sq(c.scale) < Sq(HitRadius * 10) * l2

\* ray casting: the number of edges (j, i) the ray crosses is odd
isPointInPolygon(point, vs) ==
    LET n == Len(vs)
        prev(i) == IF i = 1 THEN n ELSE i - 1
        intersect(i) ==
            LET xi == vs[i].x
                yi == vs[i].y
                xj == vs[prev(i)].x
                yj == vs[prev(i)].y
            IN  /\ (yi > point.y) # (yj > point.y)
                /\ IF yj - yi > 0
                   THEN (point.x - xi) * (yj - yi) < (xj - xi) * (point.y - yi)
                   ELSE (point.x - xi) * (yj - yi) > (xj - xi) * (point.y - yi)
    IN  Cardinality({i \in 1..n : intersect(i)}) % 2 = 1

\* the shapes of the active layout without filtering
allZones(d) == getActiveLayout(d).zones

\* a hidden criterion that would show hidden shapes whatever the filter says
showsHidden(filters, zone) == TRUE

\* the criteria of the filter callback, one by one
passesHidden(filters, zone) == ~(zone.hidden /\ ~filters.showHidden)

matches(str, search) == includes(toLowerCase(str), search)

\* String(val) of an array of n objects: '[object Object]' n times, joined
\* by commas
ObjectString == <<"[", "o", "b", "j", "e", "c", "t", " ", "O", "b", "j", "e", "c", "t", "]">>

RECURSIVE arrayString(_)
arrayString(n) ==
    IF n = 0 THEN <<>>
    ELSE IF n = 1 THEN ObjectString
    ELSE arrayString(n - 1) \o <<",">> \o ObjectString

textMatches(search, zone) ==
    \/ matches(zone.name, search)
    \/ matches(zone.comments, search)
    \/ matches(zone.contact, search)
    \/ matches(zone.freetext, search)
    \/ \E i \in DOMAIN zone.customData : matches(zone.customData[i], search)
    \/ \E i \in DOMAIN zone.originalData : matches(zone.originalData[i], search)
    \/ (zone.connectedActivities.defined
            /\ matches(arrayString(Len(zone.connectedActivities.list)), search))

passesText(filters, zone) ==
    filters.text # <<>> => textMatches(toLowerCase(filters.text), zone)

passesDiscipline(filters, zone) ==
    filters.disciplines # {} => zone.discipline \in filters.disciplines

passesStatus(filters, zone) ==
    filters.statuses # {} => zone.status \in filters.statuses

\* zone.startDate || zone.date and zone.endDate || zone.date
zoneStart(zone) == IF zone.startDate # NoDate THEN zone.startDate ELSE zone.date
zoneEnd(zone) == IF zone.endDate # NoDate THEN zone.endDate ELSE zone.date

dateInRange(filters, zStart, zEnd) ==
    /\ ~(zStart = NoDate /\ zEnd = NoDate)
    /\ filters.dateStart # NoDate =>
            /\ ~(zEnd # NoDate /\ dateLess(zEnd, filters.dateStart))
            /\ ~(zEnd = NoDate /\ dateLess(zStart, filters.dateStart))
    /\ filters.dateEnd # NoDate =>
            ~(zStart # NoDate /\ dateLess(filters.dateEnd, zStart))

passesDate(filters, zone) ==
    (filters.dateStart # NoDate \/ filters.dateEnd # NoDate) =>
        dateInRange(filters, zoneStart(zone), zoneEnd(zone))

\* the week of a date string, null (0) without one
weekOf(date) == IF date # NoDate THEN getWeekNumber(newDate(date)) ELSE 0

\* s = startWeek || endWeek and e = endWeek || startWeek, as the filter
\* compares them: zMin = Math.min(s, e), zMax = Math.max(s, e)
weekSpan(startWeek, endWeek) ==
    [zMin |-> Min({IF startWeek # 0 THEN startWeek ELSE endWeek,
                   IF endWeek # 0 THEN endWeek ELSE startWeek}),
     zMax |-> Max({IF startWeek # 0 THEN startWeek ELSE endWeek,
                   IF endWeek # 0 THEN endWeek ELSE startWeek})]

\* the branch of a week range 'a-b'
rangeOverlaps(parts, z) ==
    (parseInt(trim(parts[1])) # NaN /\ parseInt(trim(parts[2])) # NaN) =>
        (z.zMin <= parseInt(trim(parts[2])) /\ parseInt(trim(parts[1])) <= z.zMax)

\* the branch of a single week
weekWithin(targetW, z) == targetW # NaN => ~(targetW < z.zMin \/ targetW > z.zMax)

\* z.zMin is 0 exactly when neither week is known (if (!s) return false)
weekMatches(filters, z) ==
    /\ z.zMin # 0
    /\ IF filters.weeks # {}
       THEN \E weekNum \in filters.weeks : weekNum >= z.zMin /\ weekNum <= z.zMax
       ELSE IF Len(split(trim(filters.week))) > 1
       THEN rangeOverlaps(split(trim(filters.week)), z)
       ELSE weekWithin(parseInt(trim(filters.week)), z)

\* endWeek = zEnd ? getWeekNumber(new Date(zEnd)) : startWeek
passesWeek(filters, zone) ==
    (filters.weeks # {} \/ filters.week # <<>>) =>
        /\ ~(zoneStart(zone) = NoDate /\ zoneEnd(zone) = NoDate)
        /\ weekMatches(filters,
                weekSpan(weekOf(zoneStart(zone)),
                         IF zoneEnd(zone) # NoDate THEN weekOf(zoneEnd(zone))
                         ELSE weekOf(zoneStart(zone))))

\* the filter callback
passesFilters(d, zone) ==
    /\ passesHidden(d.filters, zone)
    /\ passesText(d.filters, zone)
    /\ passesDiscipline(d.filters, zone)
    /\ passesStatus(d.filters, zone)
    /\ passesDate(d.filters, zone)
    /\ passesWeek(d.filters, zone)

getVisibleZones(d) ==
    LET visible(z) == passesFilters(d, z)
    IN  SelectSeq(getActiveLayout(d).zones, visible)

zoneContains(z, pos, c) ==
    IF z.type \in {"polygon", "cloud", "measure-area"}
    THEN isPointInPolygon(pos, z.points)
    ELSE IF z.type = "draw-poly"
    THEN \E j \in 1..(Len(z.points) - 1) :
            distToSegmentWithin(pos, z.points[j], z.points[j + 1], c)
    ELSE IF z.type \in LineKinds
    THEN distToSegmentWithin(pos, Pt(z.x, z.y), Pt(z.x2, z.y2), c)
    ELSE IF z.type = "ellipse"
    THEN /\ z.width > 0 /\ z.height > 0
         \* (px - cx)^2 / rx^2 + (py - cy)^2 / ry^2 <= 1, times 4 rx^2 ry^2
         /\ Sq(2 * pos.x - 2 * z.x - z.width) * Sq(z.height)
            + Sq(2 * pos.y - 2 * z.y - z.height) * Sq(z.width)
            <= Sq(z.width) * Sq(z.height)
    ELSE /\ pos.x >= z.x /\ pos.x <= z.x + z.width
         /\ pos.y >= z.y /\ pos.y <= z.y + z.height

\* the loop of getZoneAt from index i down to the first shape
RECURSIVE zoneAtFrom(_, _, _, _)
zoneAtFrom(c, zones, pos, i) ==
    IF i < 1 THEN NoZone
    ELSE IF zoneContains(zones[i], pos, c) THEN zones[i]
    ELSE zoneAtFrom(c, zones, pos, i - 1)

\* the top-most visible shape containing pos, NoZone (null) when none does
getZoneAt(c, d, pos) ==
    LET zones == getVisibleZones(d)
    IN  zoneAtFrom(c, zones, pos, Len(zones))

Handle(h, i) == [h |-> h, i |-> i]
NoHandle == Handle("null", 0)

\* vertex handles carry the 1-based index of the vertex
getResizeHandle(c, pos, zone) ==
    LET n == Len(zone.points)
        nearPt(px, py) == Near(pos.x, px, c) /\ Near(pos.y, py, c)
        vhit == {i \in 1..n : nearPt(zone.points[i].x, zone.points[i].y)}
        \* the handle k / scale beyond vertex a, away from vertex b
        beyond(a, b, k) ==
            LET dx == a.x - b.x
                dy == a.y - b.y
                L == Sq(dx) + Sq(dy)
            IN  /\ NearOffset(pos.x, a.x, dx, L, k, c)
                /\ NearOffset(pos.y, a.y, dy, L, k, c)
    IN  IF zone.type = "symbol"
           /\ Abs(2 * pos.x - (2 * zone.x + zone.width)) * c.scale < 2 * HitRadius * 10
           /\ Abs(pos.y * c.scale - (zone.y * c.scale - 200)) < HitRadius * 10
        THEN Handle("rotate", 0)
        ELSE IF zone.type \in LineKinds \cup {"calibration-line"}
        THEN IF nearPt(zone.x, zone.y) THEN Handle("start", 0)
             ELSE IF nearPt(zone.x2, zone.y2) THEN Handle("end", 0)
             ELSE NoHandle
        ELSE IF zone.type \in PolyKinds
        THEN IF vhit # {} THEN Handle("vertex", Min(vhit))
             ELSE IF zone.type = "draw-poly" /\ n > 1
             THEN IF beyond(zone.points[1], zone.points[2], 20)
                  THEN Handle("add-start", 0)
                  ELSE IF beyond(zone.points[1], zone.points[2], 35)
                  THEN Handle("remove-start", 0)
                  ELSE IF beyond(zone.points[n], zone.points[n - 1], 20)
                  THEN Handle("add-end", 0)
                  ELSE IF beyond(zone.points[n], zone.points[n - 1], 35)
                  THEN Handle("remove-end", 0)
                  ELSE NoHandle
             ELSE NoHandle
        ELSE IF nearPt(zone.x, zone.y) THEN Handle("tl", 0)
        ELSE IF nearPt(zone.x + zone.width, zone.y) THEN Handle("tr", 0)
        ELSE IF nearPt(zone.x, zone.y + zone.height) THEN Handle("bl", 0)
        ELSE IF nearPt(zone.x + zone.width, zone.y + zone.height) THEN Handle("br", 0)
        ELSE NoHandle

(***************************************************************************)
(* CanvasManager: state, selection, tools                                  *)
(***************************************************************************)
\* this.tempZone: only its geometry is read
Temp(type, x, y, w, h, x2, y2) ==
    [type |-> type, x |-> x, y |-> y, width |-> w, height |-> h, x2 |-> x2, y2 |-> y2]

NoTemp == Temp("none", 0, 0, 0, 0, 0, 0)

\* the fields the constructor sets before it reads the active layout; s
\* is the scale, in tenths.  loading is the set of images whose load is
\* under way and saveTimer tells that the debounced save of the view is
\* armed.  Screen quantities (offset = offsetX / offsetY,
\* panStart, an event's client position) are in tenths of a pixel; offset
\* and panStart are the numerators of fractions with denominator offsetDen
\* (1 until a zoom step divides by the scale).
cmInit(s) ==
    [scale |-> s,
     isDragging |-> FALSE, isDrawing |-> FALSE, isResizing |-> FALSE,
     isRotating |-> FALSE, isSizingSymbol |-> FALSE, isPanning |-> FALSE,
     startPos |-> Pt(0, 0), currentPos |-> Pt(0, 0),
     polyPoints |-> <<>>,
     activeTool |-> "select",
     selectedZoneIds |-> <<>>,
     selectedZoneId |-> NoId,
     resizeHandle |-> NoHandle,
     tempZone |-> NoTemp,
     editingZoneId |-> NoId,
     isReversePoly |-> FALSE,
     offset |-> Pt(0, 0),
     panStart |-> Pt(0, 0),
     offsetDen |-> 1,
     backgroundImage |-> NoImage,
     lastLoadedBg |-> NoImage,
     lastLayoutId |-> NoId,
     loading |-> {},
     saveTimer |-> FALSE]

\* the ids some shape or reference of the state carries
usedIds(c, d) ==
    LET zoneIds(zs) == {zs[i].id : i \in DOMAIN zs}
    IN  UNION {zoneIds(d.layouts[i].zones) : i \in DOMAIN d.layouts}
        \cup UNION {zoneIds(d.history[i].zones) : i \in DOMAIN d.history}
        \cup UNION {zoneIds(d.redoStack[i].zones) : i \in DOMAIN d.redoStack}
        \cup SeqToSet(c.selectedZoneIds)
        \cup {c.selectedZoneId, c.editingZoneId, NoId}

\* a UUID: an id nothing in the state carries
generateUUID(c, d) ==
    LET used == usedIds(c, d)
    IN  Min({n \in 1..(Cardinality(used) + 1) : n \notin used})

\* selectedZoneIds is a Set: insertion-ordered, no duplicates
selectZone(c, id) ==
    [c EXCEPT !.selectedZoneIds = <<id>>, !.selectedZoneId = id]

addToSelection(c, id) ==
    [c EXCEPT !.selectedZoneIds = IF id \in SeqToSet(@) THEN @ ELSE Append(@, id),
              !.selectedZoneId = id]

deselectZone(c, id) ==
    LET keep(i) == i # id
        rest == SelectSeq(c.selectedZoneIds, keep)
    IN  [c EXCEPT !.selectedZoneIds = rest,
                  !.selectedZoneId = IF c.selectedZoneId = id
                                     THEN (IF Len(rest) > 0 THEN rest[1] ELSE NoId)
                                     ELSE c.selectedZoneId]

clearSelection(c) ==
    [c EXCEPT !.selectedZoneIds = <<>>, !.selectedZoneId = NoId]

setTool(c, tool) ==
    [c EXCEPT !.activeTool = tool, !.polyPoints = <<>>, !.isDrawing = FALSE]

\* x, y, width, height of a vertex list (Math.min / Math.max over the points)
boundsOf(points) ==
    LET xs == {points[i].x : i \in DOMAIN points}
        ys == {points[i].y : i \in DOMAIN points}
    IN  [x |-> Min(xs), y |-> Min(ys),
         width |-> Max(xs) - Min(xs), height |-> Max(ys) - Min(ys)]

\* a variant of the vertex list below that stores the drawing buffer as it is
bufferAsDrawn(c) == c.polyPoints

\* the vertex list finishPolygon stores in the polyline that was extended
finalPointsOf(c) == IF c.isReversePoly THEN Reverse(c.polyPoints) ELSE c.polyPoints

finishPolygon(c, d) ==
    LET c0 == [c EXCEPT !.isDrawing = FALSE]
    IN  IF c0.editingZoneId # NoId
        THEN LET zone == getZone(d, c0.editingZoneId)
                 finalPoints == finalPointsOf(c0)
                 b == boundsOf(finalPoints)
                 d1 == IF zone # NoZone
                       THEN updateZone(d, [zone EXCEPT !.points = finalPoints,
                                                       !.x = b.x, !.y = b.y,
                                                       !.width = b.width,
                                                       !.height = b.height], TRUE)
                       ELSE d
                 c1 == IF zone # NoZone THEN selectZone(c0, zone.id) ELSE c0
             IN  R(setTool([c1 EXCEPT !.editingZoneId = NoId,
                                      !.isReversePoly = FALSE,
                                      !.polyPoints = <<>>], "select"), d1)
        ELSE LET type == IF c0.activeTool = "draw-poly" THEN "draw-poly"
                         ELSE IF c0.activeTool = "measure-area" THEN "measure-area"
                         ELSE IF c0.activeTool = "cloud" THEN "cloud"
                         ELSE "polygon"
                 b == boundsOf(c0.polyPoints)
                 zone == Zone(generateUUID(c0, d), type, b.x, b.y, b.width, b.height,
                              0, 0, c0.polyPoints)
             IN  R(setTool([c0 EXCEPT !.selectedZoneId = zone.id,
                                      !.polyPoints = <<>>], "select"),
                   addZone(d, zone))

\* the multi-point branch of handleMouseDown
pressMultiPoint(c, d, pos) ==
    IF Len(c.polyPoints) = 0
    THEN R([c EXCEPT !.polyPoints = <<pos>>, !.isDrawing = TRUE], d)
    ELSE IF Within(Dist2(pos, c.polyPoints[1]), c) /\ Len(c.polyPoints) > 2
    THEN finishPolygon(c, d)
    ELSE R([c EXCEPT !.polyPoints = Append(@, pos)], d)

(***************************************************************************)
(* CanvasManager: pointer handlers.  An event e carries the model-space    *)
(* position getMousePos gives (e.pos), its screen position (e.client) and  *)
(* the shift key.                                                          *)
(***************************************************************************)
Event(c, pos, shiftKey) ==
    [pos |-> pos, shiftKey |-> shiftKey,
     client |-> Pt(pos.x * c.scale * c.offsetDen + c.offset.x,
                   pos.y * c.scale * c.offsetDen + c.offset.y)]

\* handleMouseDown, select tool, after the handle checks
pressSelect(c, d, e) ==
    LET clickedZone == getZoneAt(c, d, e.pos)
    IN  IF clickedZone # NoZone
        THEN LET c1 == IF e.shiftKey
                       THEN IF clickedZone.id \in SeqToSet(c.selectedZoneIds)
                            THEN deselectZone(c, clickedZone.id)
                            ELSE addToSelection(c, clickedZone.id)
                       ELSE IF clickedZone.id \notin SeqToSet(c.selectedZoneIds)
                            THEN selectZone(c, clickedZone.id)
                            ELSE c
             IN  R([c1 EXCEPT !.isDragging = TRUE], saveState(d))
        ELSE LET c1 == IF ~e.shiftKey THEN clearSelection(c) ELSE c
             IN  R([c1 EXCEPT !.isPanning = TRUE, !.panStart = e.client], d)

\* a variant of the test below that deletes the polyline only once no
\* vertex is left
fewerThanOne(newPoints) == Len(newPoints) < 1

\* the retract branch deletes the polyline when fewer than two vertices
\* would remain
fewerThanTwo(newPoints) == Len(newPoints) < 2

\* handleMouseDown, select tool, one shape selected: the handle checks.
\* getResizeHandle dereferences the shape: when the selected id names no
\* shape of the active layout the handler throws there and ends.
pressHandle(c, d, e) ==
    LET zone == getZone(d, c.selectedZoneIds[1])
        handle == getResizeHandle(c, e.pos, zone)
        c1 == [c EXCEPT !.resizeHandle = handle]
    IN  IF zone = NoZone THEN R(c, d)
        ELSE IF handle.h = "rotate"
        THEN R([c1 EXCEPT !.isRotating = TRUE], saveState(d))
        ELSE IF handle.h \in {"remove-start", "remove-end"}
        THEN LET newPoints == IF handle.h = "remove-start"
                              THEN Tail(zone.points)
                              ELSE SubSeq(zone.points, 1, Len(zone.points) - 1)
                 b == boundsOf(newPoints)
             IN  IF fewerThanTwo(newPoints)
                 THEN R(clearSelection(c1), deleteZone(d, zone.id))
                 ELSE R(c1, updateZone(d, [zone EXCEPT !.points = newPoints,
                                                       !.x = b.x, !.y = b.y,
                                                       !.width = b.width,
                                                       !.height = b.height], TRUE))
        ELSE IF handle.h \in {"add-start", "add-end"}
        THEN R([c1 EXCEPT !.editingZoneId = zone.id,
                          !.activeTool = "draw-poly",
                          !.isDrawing = TRUE,
                          !.polyPoints = IF handle.h = "add-start"
                                         THEN Reverse(zone.points)
                                         ELSE zone.points,
                          !.isReversePoly = (handle.h = "add-start")], d)
        ELSE IF handle # NoHandle
        THEN R([c1 EXCEPT !.isResizing = TRUE], saveState(d))
        ELSE pressSelect(c1, d, e)

handleMouseDown(c, d, e) ==
    LET pos == e.pos
        c0 == [c EXCEPT !.startPos = pos]
    IN  IF c.isSizingSymbol /\ c.tempZone # NoTemp
        THEN LET small == c.tempZone.width < 5 \/ c.tempZone.height < 5
                 newZone == [Zone(generateUUID(c, d), c.tempZone.type,
                                  c.tempZone.x, c.tempZone.y,
                                  IF small THEN 50 ELSE c.tempZone.width,
                                  IF small THEN 50 ELSE c.tempZone.height,
                                  0, 0, <<>>)
                             EXCEPT !.rotation = Pt(0, -1)]
             IN  R(setTool(selectZone([c EXCEPT !.isSizingSymbol = FALSE,
                                                !.tempZone = NoTemp], newZone.id),
                           "select"),
                   addZone(d, newZone))
        ELSE IF c.activeTool = "text"
        THEN R([c EXCEPT !.isDrawing = TRUE,
                         !.tempZone = Temp("text", pos.x, pos.y, 0, 0, 0, 0),
                         !.startPos = pos], d)
        ELSE IF c.activeTool = "calibrate"
        THEN R([c0 EXCEPT !.isDrawing = TRUE,
                          !.tempZone = Temp("calibration-line", pos.x, pos.y, 0, 0,
                                            pos.x, pos.y)], d)
        ELSE IF c.activeTool \in LineTools
        THEN R([c0 EXCEPT !.isDrawing = TRUE,
                          !.tempZone = Temp(c.activeTool, pos.x, pos.y, 0, 0,
                                            pos.x, pos.y)], d)
        ELSE IF c.activeTool = "measure-area"
        THEN pressMultiPoint(c0, d, pos)
        ELSE IF c.activeTool \in BoxTools
        THEN R([c0 EXCEPT !.isDrawing = TRUE,
                          !.tempZone = Temp(IF c.activeTool = "ellipse" THEN "ellipse"
                                            ELSE "rect", pos.x, pos.y, 0, 0, 0, 0)], d)
        ELSE IF c.activeTool \in PolyTools
        THEN pressMultiPoint(c0, d, pos)
        ELSE IF c.activeTool = "select"
        THEN IF Len(c0.selectedZoneIds) = 1
             THEN pressHandle(c0, d, e)
             ELSE pressSelect(c0, d, e)
        ELSE R(c0, d)

\* toFixed(2) of the square root of X / d2, in hundredths: the least n
\* with X / d2 < ((2n + 1) / 200)^2, searched upwards from n
RECURSIVE toFixed2(_, _, _)
toFixed2(X, d2, n) ==
    IF Sq(2 * n + 1) * d2 > 40000 * X THEN n ELSE toFixed2(X, d2, n + 1)

\* drawZone, measure-length: the label "distMeters.toFixed(2) m" in
\* hundredths, with distMeters = distPixels / (calibrationScale || 50)
lengthLabel(d, zone) ==
    LET cal == getActiveLayout(d).calibrationScale
        scale == IF cal.d2 = 0 THEN DefaultCal ELSE cal
        distPixels2 == Sq(zone.x2 - zone.x) + Sq(zone.y2 - zone.y)
    IN  toFixed2(distPixels2 * Sq(scale.meters), scale.d2, 0)

RECURSIVE GCD(_, _)
GCD(a, b) == IF b = 0 THEN a ELSE GCD(b, a % b)

\* the fraction n / d (d > 0) in lowest terms
Rat(n, d) == LET g == GCD(Abs(n), d) IN [num |-> n \div g, den |-> d \div g]

\* getMousePos for the screen point client (tenths of a pixel):
\* (client - offset) / scale, each coordinate a fraction in lowest terms
getMousePos(c, client) ==
    [x |-> Rat(client.x * c.offsetDen - c.offset.x, c.offsetDen * c.scale),
     y |-> Rat(client.y * c.offsetDen - c.offset.y, c.offsetDen * c.scale)]

\* a handleWheel that would change the scale and leave the offset alone
handleWheelKeepingOffset(c, client, deltaY) ==
    LET delta == IF deltaY > 0 THEN -zoomIntensity ELSE zoomIntensity
        newScale == Max({MinScale, Min({MaxScale, c.scale + delta})})
    IN  [c EXCEPT !.scale = newScale, !.saveTimer = TRUE]

\* handleWheel for a wheel event at the screen point client:
\* offset' = mouse - (mouse - offset) * (newScale / oldScale), exactly; the
\* result is brought to the lowest common denominator, panStart keeping
\* its value.  saveViewStateDebounced arms the timer of the save.
handleWheel(c, client, deltaY) ==
    LET delta == IF deltaY > 0 THEN -zoomIntensity ELSE zoomIntensity
        newScale == Max({MinScale, Min({MaxScale, c.scale + delta})})
        oldScale == c.scale
        den == c.offsetDen * oldScale
        ox == client.x * den - (client.x * c.offsetDen - c.offset.x) * newScale
        oy == client.y * den - (client.y * c.offsetDen - c.offset.y) * newScale
        px == c.panStart.x * oldScale
        py == c.panStart.y * oldScale
        g == GCD(GCD(GCD(GCD(den, Abs(ox)), Abs(oy)), Abs(px)), Abs(py))
    IN  [c EXCEPT !.scale = newScale,
                  !.offset = Pt(ox \div g, oy \div g),
                  !.panStart = Pt(px \div g, py \div g),
                  !.offsetDen = den \div g,
                  !.saveTimer = TRUE]

\* the view with offset (x / den, y / den): offset and panStart, which
\* keeps its value, are brought to the lowest common denominator
withOffset(c, x, y, den) ==
    LET D == c.offsetDen * den
        ox == x * c.offsetDen
        oy == y * c.offsetDen
        px == c.panStart.x * den
        py == c.panStart.y * den
        g == GCD(GCD(GCD(GCD(D, Abs(ox)), Abs(oy)), Abs(px)), Abs(py))
    IN  [c EXCEPT !.offset = Pt(ox \div g, oy \div g),
                  !.panStart = Pt(px \div g, py \div g),
                  !.offsetDen = D \div g]

\* { x: this.offsetX, y: this.offsetY }, in lowest terms
panOf(c) ==
    LET g == GCD(GCD(c.offsetDen, Abs(c.offset.x)), Abs(c.offset.y))
    IN  Pan(c.offset.x \div g, c.offset.y \div g, c.offsetDen \div g)

\* Math.min(canvas.width / img.width, canvas.height / img.height) * 0.9 in
\* tenths, for an image whose size divides nine times the canvas size
fitScale(img) ==
    Min({(9 * Canvas.width) \div img.width, (9 * Canvas.height) \div img.height})

\* the 90% fit of zoomToFit and setBackground: the scale, and the offset
\* (canvas size - image size * scale) / 2 that centres the image
fitView(c, img) ==
    LET scale == fitScale(img)
    IN  withOffset([c EXCEPT !.scale = scale],
                   10 * Canvas.width - img.width * scale,
                   10 * Canvas.height - img.height * scale, 2)

zoomToFit(c) ==
    IF c.backgroundImage = NoImage THEN c ELSE fitView(c, c.backgroundImage)

\* the subscriber of the constructor, run on every notification of the
\* DataManager: a change of the active layout restores the stored view,
\* a background not loaded yet starts to load
onStateChange(c, d) ==
    LET currentLayout == getActiveLayout(d)
        c1 == IF currentLayout.id # c.lastLayoutId
              THEN withOffset([c EXCEPT !.lastLayoutId = currentLayout.id,
                                        !.scale = IF currentLayout.scale = 0 THEN 10
                                                  ELSE currentLayout.scale],
                              currentLayout.pan.x, currentLayout.pan.y,
                              currentLayout.pan.den)
              ELSE c
        currentBg == currentLayout.backgroundImage
    IN  IF currentBg # NoImage /\ currentBg # c1.lastLoadedBg
        THEN [c1 EXCEPT !.lastLoadedBg = currentBg, !.loading = @ \cup {currentBg}]
        ELSE IF currentBg = NoImage /\ c1.backgroundImage # NoImage
        THEN [c1 EXCEPT !.backgroundImage = NoImage, !.lastLoadedBg = NoImage]
        ELSE c1

\* setBackground(imageOrCanvas, saveToState): the view is fitted to the
\* image; with saveToState the data URL is stored, which notifies the
\* subscriber before lastLoadedBg is set
setBackground(c, d, img, saveToState) ==
    LET c1 == [fitView(c, img) EXCEPT !.backgroundImage = img]
        d1 == setBackgroundImage(d, img)
    IN  IF saveToState
        THEN R([onStateChange(c1, d1) EXCEPT !.lastLoadedBg = img], d1)
        ELSE R(c1, d)

\* img.onload of a load the constructor or the subscriber started
imageLoaded(c, d, img) ==
    setBackground([c EXCEPT !.loading = @ \ {img}], d, img, FALSE)

\* img.onerror of such a load
imageFailed(c, img) ==
    [c EXCEPT !.loading = @ \ {img}, !.lastLoadedBg = NoImage]

\* the callback of saveViewStateDebounced
saveViewState(c, d) ==
    R([c EXCEPT !.saveTimer = FALSE], setViewState(d, c.scale, panOf(c)))

\* the constructor, from the field initialisers to the restore of the
\* stored view and the load of the stored background of the active layout
newCanvasManager(d) ==
    LET activeLayout == getActiveLayout(d)
        c1 == withOffset([cmInit(IF activeLayout.scale = 0 THEN 10
                                 ELSE activeLayout.scale)
                             EXCEPT !.lastLayoutId = activeLayout.id],
                         activeLayout.pan.x, activeLayout.pan.y, activeLayout.pan.den)
        savedBg == activeLayout.backgroundImage
    IN  IF savedBg # NoImage
        THEN [c1 EXCEPT !.lastLoadedBg = savedBg, !.loading = {savedBg}]
        ELSE c1

\* the rotation field for a pointer at (2 * pos - 2 * centre) = (dx, dy):
\* Math.atan2(dy, dx) * 180 / Math.PI + 90; atan2(0, 0) is 0, the angle of (1, 0)
rotationOf(dx, dy) ==
    IF dx = 0 /\ dy = 0 THEN Pt(1, 0)
    ELSE LET g == GCD(Abs(dx), Abs(dy)) IN Pt(dx \div g, dy \div g)

\* one pass of the drag loop over the selected ids, in insertion order
RECURSIVE dragZones(_, _, _, _)
dragZones(d, ids, dx, dy) ==
    IF ids = <<>> THEN d
    ELSE LET zone == getZone(d, Head(ids))
             updatedZone ==
                 IF zone.type = "polygon" \/ zone.type = "cloud"
                 THEN [zone EXCEPT !.points =
                         [i \in 1..Len(zone.points) |->
                             Pt(zone.points[i].x + dx, zone.points[i].y + dy)]]
                 ELSE [zone EXCEPT !.x = zone.x + dx, !.y = zone.y + dy]
         IN  dragZones(IF zone = NoZone THEN d ELSE updateZone(d, updatedZone, FALSE),
                       Tail(ids), dx, dy)

\* a floor that would only keep the box from inverting
notInverted(newW, newH) == newW > 0 /\ newH > 0

\* "Prevent negative size": newW > 5 && newH > 5
aboveFloor(newW, newH) == newW > 5 /\ newH > 5

resizeZone(c, d, zone, pos) ==
    LET h == c.resizeHandle.h
        left == h \in {"tl", "bl"}
        right == h \in {"tr", "br"}
        top == h \in {"tl", "tr"}
        bottom == h \in {"bl", "br"}
    IN  IF zone.type \in LineKinds \cup {"calibration-line"}
        THEN IF h = "start"
             THEN updateZone(d, [zone EXCEPT !.x = pos.x, !.y = pos.y], FALSE)
             ELSE IF h = "end"
             THEN updateZone(d, [zone EXCEPT !.x2 = pos.x, !.y2 = pos.y], FALSE)
             ELSE d
        ELSE IF zone.type = "text"
        THEN LET newY == IF top THEN pos.y ELSE zone.y
                 h1 == IF top THEN zone.height - (pos.y - zone.y) ELSE zone.height
                 newHeight == IF bottom THEN pos.y - zone.y ELSE h1
             IN  IF newHeight > 5
                 THEN updateZone(d, [zone EXCEPT !.y = newY, !.height = newHeight], FALSE)
                 ELSE d
        ELSE IF zone.type \in PolyKinds
        THEN IF h = "vertex" /\ c.resizeHandle.i >= 1 /\ c.resizeHandle.i <= Len(zone.points)
             THEN LET newPoints == [zone.points EXCEPT ![c.resizeHandle.i] = Pt(pos.x, pos.y)]
                      b == boundsOf(newPoints)
                  IN  updateZone(d, [zone EXCEPT !.points = newPoints,
                                                 !.x = b.x, !.y = b.y,
                                                 !.width = b.width,
                                                 !.height = b.height], FALSE)
             ELSE d
        ELSE LET newX == IF left THEN pos.x ELSE zone.x
                 w1 == IF left THEN zone.width - (pos.x - zone.x) ELSE zone.width
                 newW == IF right THEN pos.x - zone.x ELSE w1
                 newY == IF top THEN pos.y ELSE zone.y
                 h1 == IF top THEN zone.height - (pos.y - zone.y) ELSE zone.height
                 newH == IF bottom THEN pos.y - zone.y ELSE h1
             IN  IF aboveFloor(newW, newH)
                 THEN updateZone(d, [zone EXCEPT !.x = newX, !.y = newY,
                                                 !.width = newW, !.height = newH], FALSE)
                 ELSE d

handleMouseMove(c, d, e) ==
    LET anchor == IF c.activeTool \in PolyTools
                  THEN (IF Len(c.polyPoints) > 0 THEN c.polyPoints[Len(c.polyPoints)]
                        ELSE e.pos)
                  ELSE c.startPos
        pos == IF e.shiftKey /\ c.isDrawing
               THEN IF Abs(e.pos.x - anchor.x) > Abs(e.pos.y - anchor.y)
                    THEN Pt(e.pos.x, anchor.y)
                    ELSE Pt(anchor.x, e.pos.y)
               ELSE e.pos
        c0 == [c EXCEPT !.currentPos = pos]
    IN  IF c.isSizingSymbol /\ c.tempZone # NoTemp
        THEN LET width == pos.x - c.startPos.x
                 height == pos.y - c.startPos.y
                 size == Max({Abs(width), Abs(height)})
             IN  R([c0 EXCEPT !.tempZone.width = size,
                              !.tempZone.height = size,
                              !.tempZone.x = IF width < 0 THEN c.startPos.x - size
                                             ELSE c.startPos.x,
                              !.tempZone.y = IF height < 0 THEN c.startPos.y - size
                                             ELSE c.startPos.y], d)
        ELSE IF c.activeTool \in LineTools \cup {"calibrate"} /\ c.isDrawing
        THEN IF c.tempZone = NoTemp THEN R(c0, d)
             ELSE R([c0 EXCEPT !.tempZone.x2 = pos.x, !.tempZone.y2 = pos.y], d)
        ELSE IF c.activeTool = "measure-area" /\ c.isDrawing
        THEN R(c0, d)
        ELSE IF c.activeTool \in BoxTools \cup {"text"} /\ c.isDrawing
        THEN IF c.tempZone = NoTemp THEN R(c0, d)
             ELSE R([c0 EXCEPT !.tempZone.width = pos.x - c.startPos.x,
                               !.tempZone.height = pos.y - c.startPos.y], d)
        ELSE IF c.activeTool \in PolyTools /\ c.isDrawing
        THEN R(c0, d)
        ELSE IF c.isRotating /\ c.selectedZoneId # NoId
        THEN LET zone == getZone(d, c.selectedZoneId)
             IN  IF zone = NoZone THEN R(c0, d)
                 ELSE R(c0, updateZone(d,
                            [zone EXCEPT !.rotation =
                                rotationOf(2 * pos.x - (2 * zone.x + zone.width),
                                           2 * pos.y - (2 * zone.y + zone.height))],
                            FALSE))
        ELSE IF c.isDragging /\ Len(c.selectedZoneIds) > 0
        THEN R([c0 EXCEPT !.startPos = pos],
               dragZones(d, c.selectedZoneIds, pos.x - c.startPos.x, pos.y - c.startPos.y))
        ELSE IF c.isResizing /\ Len(c.selectedZoneIds) = 1
        THEN LET zone == getZone(d, c.selectedZoneIds[1])
             IN  IF zone = NoZone THEN R(c0, d)
                 ELSE R(c0, resizeZone(c0, d, zone, pos))
        ELSE IF c.isPanning
        THEN R([c0 EXCEPT !.offset = Pt(c.offset.x + e.client.x - c.panStart.x,
                                        c.offset.y + e.client.y - c.panStart.y),
                          !.panStart = e.client], d)
        ELSE R(c0, d)

\* the release leaves the tool of the gesture active
keepActiveTool(c) == c

\* "this.setTool('select')" where a release ends a gesture
returnToSelect(c) == setTool(c, "select")

\* distPixels >= min, for the squared length len2
asLongAs(len2, min) == len2 >= min * min

\* "distPixels > 10" and "distPixels > 5", for the squared length len2
longerThan(len2, min) == len2 > min * min

\* the box with its sizes made positive and its corner left at the press
anchoredBox(startPos, currentPos, t) ==
    [x |-> t.x, y |-> t.y, width |-> Abs(t.width), height |-> Abs(t.height)]

\* the "Normalize zone" lines of the box branch
normalizedBox(startPos, currentPos, t) ==
    [x |-> Min({startPos.x, currentPos.x}),
     y |-> Min({startPos.y, currentPos.y}),
     width |-> Abs(t.width), height |-> Abs(t.height)]

\* handleMouseUp; answer is what the calibrate prompt returns:
\* answer.ok is "distMeters && !isNaN(parseFloat(distMeters))" and
\* answer.meters the parsed number
handleMouseUp(c, d, answer) ==
    LET t == c.tempZone
        len2 == Sq(t.x2 - t.x) + Sq(t.y2 - t.y)
        released == [c EXCEPT !.isDragging = FALSE, !.isResizing = FALSE,
                              !.isRotating = FALSE, !.isPanning = FALSE,
                              !.resizeHandle = NoHandle,
                              !.saveTimer = c.saveTimer \/ c.isPanning]
    IN  IF c.activeTool = "calibrate" /\ c.isDrawing
        THEN R(returnToSelect([c EXCEPT !.isDrawing = FALSE, !.tempZone = NoTemp]),
               IF longerThan(len2, 10) /\ answer.ok
               THEN setCalibrationScale(d, Cal(len2, answer.meters))
               ELSE d)
        ELSE IF c.activeTool \in LineTools /\ c.isDrawing
        THEN LET zone == Zone(generateUUID(c, d), c.activeTool, t.x, t.y, 0, 0,
                              t.x2, t.y2, <<>>)
                 c1 == [c EXCEPT !.isDrawing = FALSE]
             IN  IF longerThan(len2, 5)
                 THEN R([returnToSelect(selectZone(c1, zone.id))
                            EXCEPT !.tempZone = NoTemp],
                        addZone(d, zone))
                 ELSE R([c1 EXCEPT !.tempZone = NoTemp], d)
        ELSE IF c.activeTool = "text" /\ c.isDrawing
        THEN LET width == Abs(t.width)
                 height == Abs(t.height)
                 zone == Zone(generateUUID(c, d), "text",
                              Min({c.startPos.x, c.currentPos.x}),
                              Min({c.startPos.y, c.currentPos.y}),
                              IF width < 10 THEN 100 ELSE width,
                              IF height < 10 THEN 20 ELSE height, 0, 0, <<>>)
             IN  R([returnToSelect(selectZone([c EXCEPT !.isDrawing = FALSE], zone.id))
                       EXCEPT !.tempZone = NoTemp],
                   addZone(d, zone))
        ELSE IF c.activeTool \in BoxTools /\ c.isDrawing
        THEN LET b == normalizedBox(c.startPos, c.currentPos, t)
                 zone == Zone(generateUUID(c, d),
                              IF c.activeTool = "ellipse" THEN "ellipse"
                              ELSE IF c.activeTool = "draw-rect" THEN "draw-rect"
                              ELSE "rect",
                              b.x, b.y, b.width, b.height, 0, 0, <<>>)
                 r1 == [released EXCEPT !.isDrawing = FALSE, !.tempZone = NoTemp]
             IN  IF zone.width > 5 /\ zone.height > 5
                 THEN R([returnToSelect([r1 EXCEPT !.selectedZoneId = zone.id])
                            EXCEPT !.tempZone = NoTemp],
                        addZone(d, zone))
                 ELSE R(r1, d)
        ELSE R(released, d)

(***************************************************************************)
(* CanvasManager: keyboard, context menu, drop                             *)
(***************************************************************************)
\* an Escape that ends the draw and keeps the vertex buffer
keyEscapeKeepingBuffer(c) ==
    IF c.isDrawing
    THEN [c EXCEPT !.isDrawing = FALSE, !.tempZone = NoTemp]
    ELSE IF Len(c.selectedZoneIds) > 0 THEN clearSelection(c)
    ELSE c

keyEscape(c) ==
    IF c.isDrawing
    THEN [c EXCEPT !.isDrawing = FALSE, !.polyPoints = <<>>, !.tempZone = NoTemp]
    ELSE IF Len(c.selectedZoneIds) > 0 THEN clearSelection(c)
    ELSE c

keyEnter(c, d) ==
    IF c.isDrawing /\ c.activeTool \in PolyTools /\ Len(c.polyPoints) > 1
    THEN finishPolygon(c, d)
    ELSE R(c, d)

RECURSIVE deleteZones(_, _)
deleteZones(d, ids) ==
    IF ids = <<>> THEN d ELSE deleteZones(deleteZone(d, Head(ids)), Tail(ids))

\* confirmed is the answer to the confirm() dialog
deleteSelectedZones(c, d, confirmed) ==
    IF Len(c.selectedZoneIds) = 0 \/ ~confirmed THEN R(c, d)
    ELSE R(clearSelection(c), deleteZones(d, c.selectedZoneIds))

keyDelete(c, d, confirmed) ==
    IF Len(c.selectedZoneIds) > 0 /\ ~c.isDrawing
    THEN deleteSelectedZones(c, d, confirmed)
    ELSE R(c, d)

\* the selected shapes are moved in the order they were selected in
bringToFrontAsSelected(c, d) ==
    IF Len(c.selectedZoneIds) = 0 THEN d
    ELSE LET d1 == saveState(d)
             zones == getActiveLayout(d1).zones
             notSel(z) == z.id \notin SeqToSet(c.selectedZoneIds)
             pick(id) == getZone(d1, id)
         IN  updateActiveLayout(d1,
                SelectSeq(zones, notSel)
                    \o [i \in DOMAIN c.selectedZoneIds |-> pick(c.selectedZoneIds[i])])

bringToFront(c, d) ==
    IF Len(c.selectedZoneIds) = 0 THEN d
    ELSE LET d1 == saveState(d)
             zones == getActiveLayout(d1).zones
             isSel(z) == z.id \in SeqToSet(c.selectedZoneIds)
             notSel(z) == z.id \notin SeqToSet(c.selectedZoneIds)
         IN  updateActiveLayout(d1, SelectSeq(zones, notSel) \o SelectSeq(zones, isSel))

sendToBack(c, d) ==
    IF Len(c.selectedZoneIds) = 0 THEN d
    ELSE LET d1 == saveState(d)
             zones == getActiveLayout(d1).zones
             isSel(z) == z.id \in SeqToSet(c.selectedZoneIds)
             notSel(z) == z.id \notin SeqToSet(c.selectedZoneIds)
         IN  updateActiveLayout(d1, SelectSeq(zones, isSel) \o SelectSeq(zones, notSel))

\* handleDrop of a symbol of the library: symbol-sizing mode starts
dropSymbol(c, pos) ==
    [c EXCEPT !.isSizingSymbol = TRUE,
              !.startPos = pos,
              !.tempZone = Temp("symbol", pos.x, pos.y, 1, 1, 0, 0)]

\* DataManager.setZoneNameMode
setZoneNameMode(d, mode) == [d EXCEPT !.zoneNameMode = mode]

\* the forEach of handleDrop and disconnectActivity that finds the earliest
\* start: an activity without a start is passed over
RECURSIVE minStart(_, _)
minStart(list, acc) ==
    IF list = <<>> THEN acc
    ELSE minStart(Tail(list),
                  IF Head(list).start # NoDate
                        /\ (acc = NoDate \/ dateLess(Head(list).start, acc))
                  THEN Head(list).start ELSE acc)

\* the same forEach for the latest end
RECURSIVE maxEnd(_, _)
maxEnd(list, acc) ==
    IF list = <<>> THEN acc
    ELSE maxEnd(Tail(list),
                IF Head(list).end # NoDate
                      /\ (acc = NoDate \/ dateLess(acc, Head(list).end))
                THEN Head(list).end ELSE acc)

\* connectedActivities.some(a => a.code === code)
hasCode(list, code) == \E i \in DOMAIN list : list[i].code = code

\* connectedActivities.push(...) on the array the stored shape holds: the
\* shape of the state changes with it
pushed(d, zoneId, list) ==
    LET zs == getActiveLayout(d).zones
    IN  updateActiveLayout(d,
            [i \in 1..Len(zs) |->
                IF zs[i].id = zoneId
                THEN [zs[i] EXCEPT !.connectedActivities = Activities(list)]
                ELSE zs[i]])

\* zone.customData._connectedActivities || []: the stored array itself when
\* the shape has one, a new array otherwise
pushedInPlace(d, zone, list) ==
    IF zone.connectedActivities.defined THEN pushed(d, zone.id, list) ELSE d

\* handleDrop of a schedule activity; data is { code, title, start, end,
\* originalData }
dropActivity(c, d, pos, data) ==
    LET zone == getZoneAt(c, d, pos)
        connectedActivities ==
            IF hasCode(zone.connectedActivities.list, data.code)
            THEN zone.connectedActivities.list
            ELSE Append(zone.connectedActivities.list,
                        Activity(data.code, data.title, data.start, data.end))
        updated ==
            [zone EXCEPT !.startDate = minStart(connectedActivities, NoDate),
                         !.endDate = maxEnd(connectedActivities, NoDate),
                         !.originalData = data.originalData,
                         !.connectedActivities = Activities(connectedActivities),
                         !.name = IF d.zoneNameMode = "activity" THEN data.title ELSE @]
    IN  IF zone = NoZone THEN d
        ELSE updateZone(pushedInPlace(d, zone, connectedActivities), updated, TRUE)

(***************************************************************************)
(* UIManager                                                               *)
(***************************************************************************)
\* connectedActivities.splice(index, 1) on a copy of the array
splice(list, index) ==
    IF index >= 0 /\ index < Len(list)
    THEN SubSeq(list, 1, index) \o SubSeq(list, index + 2, Len(list))
    ELSE list

\* "Recalculate dates if activities remain"
rangeOfRemaining(zone, list) ==
    IF Len(list) > 0
    THEN [zone EXCEPT !.connectedActivities = Activities(list),
                      !.startDate = minStart(list, NoDate),
                      !.endDate = maxEnd(list, NoDate)]
    ELSE [zone EXCEPT !.connectedActivities = Activities(list)]

\* zoneId is the id the metadata panel shows (metaId)
disconnectActivity(d, zoneId, index) ==
    LET zone == getZone(d, zoneId)
    IN  IF zone = NoZone THEN d
        ELSE updateZone(d, rangeOfRemaining(zone, splice(zone.connectedActivities.list, index)),
                        TRUE)

(***************************************************************************)
(* History variable.  gh.op names the event that ran last; gh.hadRedo      *)
(* tells whether the redo stack was non-empty before it; gh.down tells     *)
(* whether the mouse button is held; gh.undone holds                       *)
(* the shape list and undo stack an acting undo() started from, up to      *)
(* the redo() that directly follows it; gh.gesture follows one             *)
(* press / move / release gesture of the select tool and the undo() after  *)
(* it, with the shape list and undo stack as of the press; gh.edits counts  *)
(* the undo entries pushed so far and gh.pos is the model-space position   *)
(* of the press that ran last.  When the event that ran last is one of     *)
(* gh.watch.input, gh.pos and gh.shift are its pointer position and        *)
(* shift-key state, and gh.answer the answer to its prompt; when it is one *)
(* of gh.watch.pre, gh.pre is the state it started from, with the gh.op,   *)
(* gh.pos and gh.shift of the event before it.  gh.budget is the number of *)
(* undo entries the specification explores, gh.notches the number of wheel *)
(* events so far.  With "view" among the watched events, gh.restored is    *)
(* the id of the layout the last change of the active layout led to, as    *)
(* long as the user has not zoomed, fitted, panned or picked a background  *)
(* since.  With "extend" among them, gh.extend is the extension of a       *)
(* polyline under way: the shape and its vertices as of the press on the   *)
(* add handle, the handle, the presses made since, and done in the state   *)
(* right after the Enter key or press that ended it; any other key ends    *)
(* the record.  gh.polyBudget is the number of vertices the drawing buffer *)
(* may hold.  gh.target is the id a watched call of updateZone,            *)
(* deleteZone, setActiveLayout or deleteLayout was given.  With "delete"   *)
(* among the watched events, gh.deleted holds the shape list and the       *)
(* number of selected shapes as of the last confirmed Delete of two or     *)
(* more shapes, in the state right after it and after the undo() that      *)
(* follows it at once.  With "link" among the watched events, gh.linked    *)
(* holds the shape an activity was dropped on as it was before the drop,   *)
(* in the state right after the drop and after the undo() that follows it  *)
(* at once.  With "layouts" among the watched events, gh.undone also       *)
(* holds the shape list of every layout and the active layout id as of the *)
(* undo().  With "left" among the watched events, gh.left holds the id of  *)
(* the layout the user left last and the view it was left with, and        *)
(* gh.returned holds the same in the state right after the switch back to  *)
(* that layout.                                                            *)
(***************************************************************************)
NoUndone == [state |-> "none", zones |-> <<>>, history |-> <<>>,
             layouts |-> <<>>, active |-> NoId]
NoGesture == [phase |-> "none", kind |-> "none", moved |-> FALSE,
              zones |-> <<>>, history |-> <<>>]

\* gh.deleted when no deletion of several shapes is recorded
NoDeleted == [phase |-> "none", zones |-> <<>>, k |-> 0]

\* gh.left and gh.returned when no view is recorded
NoView == [id |-> NoId, scale |-> 0, pan |-> Pan(0, 0, 1)]

\* gh.linked when no link of an activity is recorded
NoLinked == [phase |-> "none", zone |-> NoZone]

\* gh.extend when no extension of a polyline is under way
NoExtend == [id |-> NoId, points |-> <<>>, from |-> "none", presses |-> <<>>,
             done |-> FALSE]

\* the calibrate prompt is cancelled or answered with a length in Meters
Meters == {2}
NoAnswer == [ok |-> FALSE, meters |-> 0]
Answers == {NoAnswer} \cup {[ok |-> TRUE, meters |-> m] : m \in Meters}

\* gh.pre when nothing is recorded
NoPre == [cm |-> cmInit(10), dm |-> dmInit, op |-> "init", pos |-> Pt(0, 0), shift |-> FALSE]

ghInit == [op |-> "init", pos |-> Pt(0, 0), down |-> FALSE, edits |-> 0, hadRedo |-> FALSE,
           undone |-> NoUndone, gesture |-> NoGesture,
           shift |-> FALSE, answer |-> NoAnswer, budget |-> MaxUndo, notches |-> 0,
           restored |-> NoId, extend |-> NoExtend, polyBudget |-> MaxPoly,
           target |-> NoId, deleted |-> NoDeleted, linked |-> NoLinked,
           left |-> NoView, returned |-> NoView,
           watch |-> [pre |-> {}, input |-> {}], pre |-> NoPre]

\* the history variable of a specification that records the state the
\* events named in ops start from, and the pointer position and shift key
\* of the events named in inputs
ghWatch(ops, inputs) == [ghInit EXCEPT !.watch = [pre |-> ops, input |-> inputs]]

\* the event pushes an undo entry (undo and redo move entries instead)
Pushes(op, r) == op \notin {"undo", "redo"} /\ r.dm.history # dm.history

ghNextOf(op, pos, shiftKey, r) ==
    [op |-> op,
     pos |-> IF op = "mousedown" \/ op \in gh.watch.input THEN pos ELSE Pt(0, 0),
     shift |-> op \in gh.watch.input /\ shiftKey,
     answer |-> NoAnswer,
     budget |-> gh.budget,
     polyBudget |-> gh.polyBudget,
     target |-> NoId,
     deleted |->
        IF "delete" \notin gh.watch.pre THEN NoDeleted
        ELSE IF op = "delete" /\ Len(cm.selectedZoneIds) >= 2 /\ ~cm.isDrawing
                /\ r.cm.selectedZoneIds = <<>>
        THEN [phase |-> "deleted", zones |-> activeZones(dm),
              k |-> Len(cm.selectedZoneIds)]
        ELSE IF op = "undo" /\ gh.deleted.phase = "deleted"
        THEN [gh.deleted EXCEPT !.phase = "undone"]
        ELSE NoDeleted,
     left |->
        IF "left" \notin gh.watch.pre THEN NoView
        ELSE IF getActiveLayout(r.dm).id # getActiveLayout(dm).id
        THEN [id |-> getActiveLayout(dm).id, scale |-> cm.scale, pan |-> panOf(cm)]
        ELSE gh.left,
     returned |->
        IF /\ "left" \in gh.watch.pre
           /\ getActiveLayout(r.dm).id # getActiveLayout(dm).id
           /\ gh.left.id = getActiveLayout(r.dm).id
        THEN gh.left
        ELSE NoView,
     linked |->
        IF "link" \notin gh.watch.pre THEN NoLinked
        ELSE IF op = "link" /\ r.dm.history # dm.history
        THEN [phase |-> "linked", zone |-> getZoneAt(cm, dm, pos)]
        ELSE IF op = "undo" /\ gh.linked.phase = "linked"
        THEN [gh.linked EXCEPT !.phase = "undone"]
        ELSE NoLinked,
     extend |->
        IF "extend" \notin gh.watch.pre THEN NoExtend
        ELSE IF /\ op = "mousedown" /\ cm.activeTool = "select" /\ ~cm.isSizingSymbol
                /\ Len(cm.selectedZoneIds) = 1
                /\ getZone(dm, cm.selectedZoneIds[1]) # NoZone
                /\ getResizeHandle(cm, pos, getZone(dm, cm.selectedZoneIds[1])).h
                        \in {"add-start", "add-end"}
        THEN [id |-> cm.selectedZoneIds[1],
              points |-> getZone(dm, cm.selectedZoneIds[1]).points,
              from |-> getResizeHandle(cm, pos, getZone(dm, cm.selectedZoneIds[1])).h,
              presses |-> <<>>, done |-> FALSE]
        ELSE IF gh.extend.id = NoId \/ gh.extend.done THEN NoExtend
        ELSE IF op = "mousedown"
        THEN IF r.cm.isDrawing
             THEN [gh.extend EXCEPT !.presses = Append(@, pos)]
             ELSE [gh.extend EXCEPT !.done = TRUE]
        ELSE IF op = "enter" THEN [gh.extend EXCEPT !.done = TRUE]
        ELSE IF op \in {"mouseup", "mousemove"} THEN gh.extend
        ELSE NoExtend,
     notches |-> IF op = "wheel" THEN gh.notches + 1 ELSE gh.notches,
     restored |->
        IF "view" \notin gh.watch.pre THEN NoId
        ELSE IF getActiveLayout(r.dm).id # getActiveLayout(dm).id
        THEN getActiveLayout(r.dm).id
        ELSE IF op \in {"wheel", "zoomToFit", "upload"}
                \/ (op = "mousemove" /\ cm.isPanning)
        THEN NoId
        ELSE gh.restored,
     watch |-> gh.watch,
     pre |-> IF op \in gh.watch.pre
             THEN [cm |-> cm, dm |-> dm, op |-> gh.op, pos |-> gh.pos, shift |-> gh.shift]
             ELSE NoPre,
     down |-> IF op = "mousedown" THEN TRUE
              ELSE IF op \in {"mouseup", "mouseupOutside"} THEN FALSE ELSE gh.down,
     edits |-> IF Pushes(op, r) THEN gh.edits + 1 ELSE gh.edits,
     hadRedo |-> Len(dm.redoStack) > 0,
     undone |->
        IF op = "undo" /\ Len(dm.history) > 0
        THEN [state |-> "undo", zones |-> activeZones(dm), history |-> dm.history,
              layouts |-> IF "layouts" \in gh.watch.pre
                          THEN [i \in DOMAIN dm.layouts |->
                                    [id |-> dm.layouts[i].id, zones |-> dm.layouts[i].zones]]
                          ELSE <<>>,
              active |-> IF "layouts" \in gh.watch.pre THEN dm.activeLayoutId ELSE NoId]
        ELSE IF op = "redo" /\ gh.undone.state = "undo"
        THEN [gh.undone EXCEPT !.state = "undoredo"]
        ELSE NoUndone,
     gesture |->
        IF /\ op = "mousedown" /\ cm.activeTool = "select" /\ ~cm.isSizingSymbol
           /\ (r.cm.isDragging \/ r.cm.isResizing \/ r.cm.isRotating)
           /\ r.cm.activeTool = "select"
        THEN [phase |-> "pressed",
              kind |-> IF r.cm.isRotating THEN "rotate"
                       ELSE IF r.cm.isResizing THEN "resize" ELSE "drag",
              moved |-> FALSE,
              zones |-> activeZones(dm), history |-> dm.history]
        ELSE IF op = "mousemove" /\ gh.gesture.phase = "pressed"
        THEN [gh.gesture EXCEPT !.moved = TRUE]
        ELSE IF op = "mouseup" /\ gh.gesture.phase = "pressed"
        THEN [gh.gesture EXCEPT !.phase = "released"]
        ELSE IF op = "undo" /\ gh.gesture.phase = "released"
        THEN [gh.gesture EXCEPT !.phase = "undone"]
        ELSE NoGesture]

ghNext(op, pos, r) == ghNextOf(op, pos, FALSE, r)

\* the part of the state space the editing specifications explore
Bounded(r) ==
    /\ (r.dm.history # dm.history => gh.edits < gh.budget)
    /\ Len(r.dm.layouts) <= MaxLayouts
    /\ \A i \in DOMAIN r.dm.layouts : Len(r.dm.layouts[i].zones) <= MaxZones
    /\ Len(r.cm.polyPoints) <= gh.polyBudget

\* the view after the event: a handler that changes layouts, active layout
\* or filters goes through setState, which notifies the subscriber
notified(r) ==
    IF [r.dm EXCEPT !.history = <<>>, !.redoStack = <<>>]
            # [dm EXCEPT !.history = <<>>, !.redoStack = <<>>]
    THEN onStateChange(r.cm, r.dm)
    ELSE r.cm

\* one event: the handler's result becomes the next state
StepAt(op, pos, r) ==
    /\ cm' = notified(r)
    /\ dm' = r.dm
    /\ gh' = ghNext(op, pos, r)

Step(op, r) == StepAt(op, Pt(0, 0), r)

\* one call that names a shape by its id
StepTarget(op, id, r) ==
    /\ cm' = notified(r)
    /\ dm' = r.dm
    /\ gh' = [ghNext(op, Pt(0, 0), r)
                 EXCEPT !.target = IF op \in gh.watch.input THEN id ELSE NoId]

\* one release, with the answer to the calibrate prompt
StepAnswer(op, answer, r) ==
    /\ cm' = notified(r)
    /\ dm' = r.dm
    /\ gh' = [ghNext(op, Pt(0, 0), r)
                 EXCEPT !.answer = IF op \in gh.watch.input THEN answer ELSE NoAnswer]

\* one pointer event at pos with the shift key as given
StepKey(op, pos, shiftKey, r) ==
    /\ cm' = notified(r)
    /\ dm' = r.dm
    /\ gh' = ghNextOf(op, pos, shiftKey, r)

(***************************************************************************)
(* Events.  P is the set of pointer positions, K the set of shift-key      *)
(* states and T the set of tools of the specification that uses the        *)
(* event.  The pointer follows the mouse protocol: a press with the button *)
(* up, moves and one release with the button down; toolbar, keyboard, menu *)
(* and tab events come between gestures.                                   *)
(***************************************************************************)
MouseDown(P, K) ==
    /\ ~gh.down
    /\ \E pos \in P, shiftKey \in K :
        LET r == handleMouseDown(cm, dm, Event(cm, pos, shiftKey))
        IN  Bounded(r) /\ StepKey("mousedown", pos, shiftKey, r)

MouseMove(P, K) ==
    /\ gh.down
    /\ \E pos \in P, shiftKey \in K :
        LET r == handleMouseMove(cm, dm, Event(cm, pos, shiftKey))
        IN  Bounded(r) /\ StepKey("mousemove", pos, shiftKey, r)

MouseUp ==
    /\ gh.down
    /\ \E answer \in (IF cm.activeTool = "calibrate" /\ cm.isDrawing
                      THEN Answers ELSE {NoAnswer}) :
        LET r == handleMouseUp(cm, dm, answer)
        IN  Bounded(r) /\ StepAnswer("mouseup", answer, r)

\* "distMeters && !isNaN(parseFloat(distMeters))" and parseFloat(distMeters)
\* for what the prompt returned
answerOf(distMeters) ==
    IF distMeters.cancelled \/ distMeters.text = <<>> \/ parseFloat(distMeters.text).nan
    THEN NoAnswer
    ELSE [ok |-> TRUE, meters |-> parseFloat(distMeters.text).value]

\* one release, the calibrate prompt being answered with a text of T or
\* cancelled
MouseUpPrompt(T) ==
    /\ gh.down
    /\ \E distMeters \in (IF cm.activeTool = "calibrate" /\ cm.isDrawing
                          THEN T ELSE {Cancelled}) :
        LET r == handleMouseUp(cm, dm, answerOf(distMeters))
        IN  Bounded(r) /\ StepAnswer("mouseup", answerOf(distMeters), r)

\* the button is released outside the canvas: no listener of the canvas
\* runs (the mouseup listener is registered on the canvas element)
MouseUpOutside == gh.down /\ Step("mouseupOutside", R(cm, dm))

\* the "show hidden" checkbox of the filter panel
SetShowHidden ==
    /\ ~gh.down
    /\ Step("setFilters",
            R(cm, setFilters(dm, [showHidden |-> ~dm.filters.showHidden])))

\* a status checkbox of the filter panel: the status id is added to or
\* removed from filters.statuses
ToggleStatus(S) ==
    /\ ~gh.down
    /\ \E id \in S :
        LET newStatuses == IF id \in dm.filters.statuses
                           THEN dm.filters.statuses \ {id}
                           ELSE dm.filters.statuses \cup {id}
        IN  Step("setFilters", R(cm, setFilters(dm, [statuses |-> newStatuses])))

\* a discipline checkbox of the filter panel
ToggleDiscipline(D) ==
    /\ ~gh.down
    /\ \E id \in D :
        LET newDisciplines == IF id \in dm.filters.disciplines
                              THEN dm.filters.disciplines \ {id}
                              ELSE dm.filters.disciplines \cup {id}
        IN  Step("setFilters", R(cm, setFilters(dm, [disciplines |-> newDisciplines])))

\* the search box of the filter panel
SetText(T) ==
    /\ ~gh.down
    /\ \E text \in T :
        /\ text # dm.filters.text
        /\ Step("setFilters", R(cm, setFilters(dm, [text |-> text])))

\* setFilters({ dateStart }) and setFilters({ dateEnd })
SetDateStart(D) ==
    /\ ~gh.down
    /\ \E date \in D :
        /\ date # dm.filters.dateStart
        /\ Step("setFilters", R(cm, setFilters(dm, [dateStart |-> date])))

SetDateEnd(D) ==
    /\ ~gh.down
    /\ \E date \in D :
        /\ date # dm.filters.dateEnd
        /\ Step("setFilters", R(cm, setFilters(dm, [dateEnd |-> date])))

\* the Apply button of the week dropdown: the checked weeks
SetWeeks(W) ==
    /\ ~gh.down
    /\ \E selectedWeeks \in W :
        /\ selectedWeeks # dm.filters.weeks
        /\ Step("setFilters", R(cm, setFilters(dm, [weeks |-> selectedWeeks])))

\* setFilters({ week }): a week or a range of weeks as text
SetWeek(W) ==
    /\ ~gh.down
    /\ \E week \in W :
        /\ week # dm.filters.week
        /\ Step("setFilters", R(cm, setFilters(dm, [week |-> week])))

\* the reset button of the filter panel
ResetFilters ==
    /\ ~gh.down
    /\ dm.filters # NoFilters
    /\ Step("resetFilters", R(cm, resetFilters(dm)))

SetTool(T) ==
    /\ ~gh.down
    /\ \E tool \in T :
        /\ tool # cm.activeTool
        /\ Step("settool", R(setTool(cm, tool), dm))

KeyUndo == ~gh.down /\ Step("undo", R(cm, undo(dm)))

KeyRedo == ~gh.down /\ Step("redo", R(cm, redo(dm)))

KeyEnter ==
    LET r == keyEnter(cm, dm)
    IN  ~gh.down /\ Bounded(r) /\ Step("enter", r)

KeyEscape == ~gh.down /\ Step("escape", R(keyEscape(cm), dm))

KeyDelete ==
    /\ ~gh.down
    /\ \E confirmed \in BOOLEAN :
        LET r == keyDelete(cm, dm, confirmed)
        IN  Bounded(r) /\ Step("delete", r)

BringToFront ==
    LET r == R(cm, bringToFront(cm, dm))
    IN  ~gh.down /\ Bounded(r) /\ Step("bringToFront", r)

SendToBack ==
    LET r == R(cm, sendToBack(cm, dm))
    IN  ~gh.down /\ Bounded(r) /\ Step("sendToBack", r)

DropSymbol(P) ==
    /\ ~gh.down
    /\ \E pos \in P : Step("drop", R(dropSymbol(cm, pos), dm))

\* an activity of the schedule list A is dropped on the canvas at a point
\* of P
DropActivity(P, A) ==
    /\ ~gh.down
    /\ \E pos \in P, data \in A :
        LET r == R(cm, dropActivity(cm, dm, pos, data))
        IN  Bounded(r) /\ StepAt("link", pos, r)

\* a disconnect button of the metadata panel, which shows a shape of the
\* active layout and one button per linked activity
DisconnectActivity ==
    /\ ~gh.down
    /\ \E i \in DOMAIN activeZones(dm) :
        \E index \in 0..(Len(activeZones(dm)[i].connectedActivities.list) - 1) :
            LET r == R(cm, disconnectActivity(dm, activeZones(dm)[i].id, index))
            IN  Bounded(r) /\ StepTarget("disconnect", activeZones(dm)[i].id, r)

\* the "shape name" setting
SetZoneNameMode ==
    /\ ~gh.down
    /\ \E mode \in {"activity", "manual"} :
        /\ mode # dm.zoneNameMode
        /\ Step("setZoneNameMode", R(cm, setZoneNameMode(dm, mode)))

\* one notch of the wheel at a screen point of P, away from the user
\* (deltaY < 0, zoom in) or towards the user (deltaY > 0, zoom out)
Wheel(P) ==
    /\ gh.notches < MaxNotches
    /\ cm.offsetDen * cm.scale <= MaxDen
    /\ \E client \in P, deltaY \in {-1, 1} :
        StepKey("wheel", client, FALSE, R(handleWheel(cm, client, deltaY), dm))

\* the fit button of the toolbar
ZoomToFit == ~gh.down /\ Step("zoomToFit", R(zoomToFit(cm), dm))

\* a background file of I is picked in the upload dialog
UploadBackground(I) ==
    /\ ~gh.down
    /\ \E img \in I : Step("upload", setBackground(cm, dm, img, TRUE))

\* a load under way ends: the image arrives or the load fails
ImageLoaded ==
    \E img \in cm.loading : Step("load", imageLoaded(cm, dm, img))

ImageFailed ==
    \E img \in cm.loading : Step("loaderror", R(imageFailed(cm, img), dm))

\* the timer of the debounced save of the view fires
SaveViewState == cm.saveTimer /\ Step("saveView", saveViewState(cm, dm))

AddLayout ==
    LET r == R(cm, addLayout(dm))
    IN  ~gh.down /\ Bounded(r) /\ Step("addLayout", r)

\* a click on the tab of another layout
SetActiveLayout ==
    /\ ~gh.down
    /\ \E id \in layoutIds(dm) :
        /\ id # dm.activeLayoutId
        /\ Step("setActiveLayout", R(cm, setActiveLayout(dm, id)))

\* the close button of a tab (shown when there are at least two layouts)
DeleteLayout ==
    /\ ~gh.down
    /\ Len(dm.layouts) > 1
    /\ \E id \in layoutIds(dm) :
        Step("deleteLayout", R(cm, deleteLayout(dm, id)))

(***************************************************************************)
(* Spec: editing one layout with the select, rectangle and length tools,   *)
(* from an empty project.  The pointer visits the two corners of a 12 x 24 *)
(* rectangle, so that a press finds a shape, a corner handle or nothing.   *)
(***************************************************************************)
EditTools == {"select", "draw", "measure-length"}
EditPts == {Pt(0, 0), Pt(12, 24)}

Init ==
    /\ dm = dmInit
    /\ cm = newCanvasManager(dm)
    /\ gh = ghInit

\* a pointer move while panning shifts the view only; the view is not
\* explored here
Next ==
    \/ SetTool(EditTools)
    \/ MouseDown(EditPts, BOOLEAN)
    \/ (~cm.isPanning /\ MouseMove(EditPts, BOOLEAN))
    \/ MouseUp
    \/ KeyDelete
    \/ BringToFront
    \/ SendToBack
    \/ KeyUndo
    \/ KeyRedo

Spec == Init /\ [][Next]_vars

(***************************************************************************)
(* SpecGesture: drag, resize and rotate gestures of the select tool on a   *)
(* stored project of one shape (the constructor loads the project from     *)
(* storage with empty undo and redo stacks).  The pointer visits a corner  *)
(* or first vertex, an interior point and the rotate handle of the shape.  *)
(***************************************************************************)
GesturePts == {Pt(0, 0), Pt(12, 12), Pt(6, -20)}
Triangle == <<Pt(0, 0), Pt(30, 0), Pt(12, 24)>>

StoredShapes ==
    { Zone(1, "rect", 0, 0, 12, 24, 0, 0, <<>>),
      Zone(1, "symbol", 0, 0, 12, 24, 0, 0, <<>>),
      Zone(1, "line", 0, 0, 0, 0, 24, 24, <<>>),
      Zone(1, "polygon", 0, 0, 30, 24, 0, 0, Triangle),
      Zone(1, "measure-area", 0, 0, 30, 24, 0, 0, Triangle) }

InitGesture ==
    /\ \E z \in StoredShapes : dm = updateActiveLayout(dmInit, <<z>>)
    /\ cm = newCanvasManager(dm)
    /\ gh = ghInit

NextGesture ==
    \/ MouseDown(GesturePts, BOOLEAN)
    \/ (~cm.isPanning /\ MouseMove(GesturePts, BOOLEAN))
    \/ MouseUp
    \/ KeyUndo
    \/ KeyRedo

SpecGesture == InitGesture /\ [][NextGesture]_vars

(***************************************************************************)
(* SpecLayouts: the DataManager operations on shapes, layouts and history  *)
(* in any order, from an empty project: shapes are added to and deleted    *)
(* from the active layout while layouts are added, switched and closed,    *)
(* with undo and redo in between.                                          *)
(***************************************************************************)
AddZone ==
    LET zone == Zone(generateUUID(cm, dm), "rect", 0, 0, 12, 24, 0, 0, <<>>)
        r == R(cm, addZone(dm, zone))
    IN  Bounded(r) /\ Step("addZone", r)

DeleteZone ==
    \E j \in DOMAIN activeZones(dm) :
        LET r == R(cm, deleteZone(dm, activeZones(dm)[j].id))
        IN  Bounded(r) /\ Step("deleteZone", r)

NextLayouts ==
    \/ AddZone
    \/ DeleteZone
    \/ AddLayout
    \/ SetActiveLayout
    \/ DeleteLayout
    \/ KeyUndo
    \/ KeyRedo

SpecLayouts == Init /\ [][NextLayouts]_vars

(***************************************************************************)
(* SpecHistory: shapes are added one after the other, past maxHistory      *)
(* entries of the undo stack; in between, any number of entries is undone  *)
(* and redone again.                                                       *)
(***************************************************************************)
AddZoneToCap ==
    LET zone == Zone(generateUUID(cm, dm), "rect", 0, 0, 12, 24, 0, 0, <<>>)
    IN  /\ gh.edits < MaxPushes
        /\ dm.redoStack = <<>>
        /\ Step("addZone", R(cm, addZone(dm, zone)))

NextHistory ==
    \/ AddZoneToCap
    \/ KeyUndo
    \/ KeyRedo

SpecHistory == Init /\ [][NextHistory]_vars

(***************************************************************************)
(* SpecPoly: the multi-point tools, on an empty project or on a stored     *)
(* project with one open polyline from (0,0) to (30,0).  The pointer       *)
(* visits the end of the polyline and the extend handle 20 pixels beyond   *)
(* it; the polyline tool is entered through that handle.                   *)
(***************************************************************************)
PolyPts == {Pt(30, 0), Pt(50, 0)}
MultiPointTools == {"select", "poly", "measure-area"}

StoredPolylines ==
    { <<>>, <<Zone(1, "draw-poly", 0, 0, 30, 0, 0, 0, <<Pt(0, 0), Pt(30, 0)>>)>> }

InitPoly ==
    /\ \E zs \in StoredPolylines : dm = updateActiveLayout(dmInit, zs)
    /\ cm = newCanvasManager(dm)
    /\ gh = ghInit

\* the tool is picked with no vertex buffered
NextPoly ==
    \/ (cm.polyPoints = <<>> /\ SetTool(MultiPointTools))
    \/ MouseDown(PolyPts, {FALSE})
    \/ MouseUp
    \/ KeyEnter
    \/ KeyEscape

SpecPoly == InitPoly /\ [][NextPoly]_vars

(***************************************************************************)
(* SpecDraw: press / move / release gestures of the box, line and          *)
(* calibrate tools, from an empty project, with undo and redo between the  *)
(* gestures.  The pointer visits the two corners of the 100 x 50 box of    *)
(* the rectangle scenario and a point exactly 5 pixels from the first      *)
(* corner.  A gesture starts while fewer than MaxDrawn shapes are stored.   *)
(***************************************************************************)
DrawPts == {Pt(10, 10), Pt(110, 60), Pt(13, 14)}
DrawTools == BoxTools \cup LineTools \cup {"calibrate"}

InitDraw ==
    /\ dm = dmInit
    /\ cm = newCanvasManager(dm)
    /\ gh = ghWatch({"mouseup"}, {"mousemove"})

\* the pointer is pressed with a drawing tool picked
NextDraw ==
    \/ SetTool(DrawTools)
    \/ (/\ cm.activeTool # "select"
        /\ Len(activeZones(dm)) < MaxDrawn
        /\ MouseDown(DrawPts, {FALSE}))
    \/ MouseMove(DrawPts, BOOLEAN)
    \/ MouseUp
    \/ KeyUndo

SpecDraw == InitDraw /\ [][NextDraw]_vars

(***************************************************************************)
(* SpecCalibrate: calibrate gestures in a stored project of two layouts,   *)
(* each holding one measure-length shape (50 and 5 pixels long), with      *)
(* switches between the layouts.  The pointer visits the ends of a         *)
(* horizontal line of 200 pixels and a point off that line.                *)
(***************************************************************************)
CalPts == {Pt(10, 10), Pt(210, 10), Pt(110, 60)}

StoredLengths ==
    LET first == updateActiveLayout(dmInit,
                    <<Zone(1, "measure-length", 0, 0, 0, 0, 50, 0, <<>>)>>)
    IN  updateActiveLayout(addLayout(first),
                    <<Zone(2, "measure-length", 10, 10, 0, 0, 13, 14, <<>>)>>)

InitCalibrate ==
    /\ dm = StoredLengths
    /\ cm = newCanvasManager(dm)
    /\ gh = ghWatch({"mouseup"}, {"mouseup"})

\* the pointer is pressed with the calibrate tool picked
NextCalibrate ==
    \/ SetTool({"calibrate"})
    \/ (cm.activeTool = "calibrate" /\ MouseDown(CalPts, {FALSE}))
    \/ MouseMove(CalPts, BOOLEAN)
    \/ MouseUp
    \/ SetActiveLayout

SpecCalibrate == InitCalibrate /\ [][NextCalibrate]_vars

(***************************************************************************)
(* SpecEscape: the multi-point tools with the Escape and Enter keys, on    *)
(* the stored projects and pointer positions of SpecPoly, with undo after  *)
(* a shape was committed.  The pointer is pressed while the undo stack     *)
(* holds fewer than MaxDrawn entries.                                      *)
(***************************************************************************)
EscapeTools == {"select", "poly", "measure-area"}

InitEscape ==
    /\ \E zs \in StoredPolylines : dm = updateActiveLayout(dmInit, zs)
    /\ cm = newCanvasManager(dm)
    /\ gh = ghWatch({"escape", "enter"}, {})

NextEscape ==
    \/ (cm.polyPoints = <<>> /\ SetTool(EscapeTools))
    \/ (Len(dm.history) < MaxDrawn /\ MouseDown(PolyPts, {FALSE}))
    \/ MouseUp
    \/ KeyEnter
    \/ KeyEscape
    \/ KeyUndo

SpecEscape == InitEscape /\ [][NextEscape]_vars

(***************************************************************************)
(* SpecFilter: presses of the select tool on a stored project of two       *)
(* overlapping rectangles, each hidden or not and planned or done, while   *)
(* the hidden filter and the status filter are switched.  The pointer      *)
(* visits a point of the lower rectangle only, a point of both and a point *)
(* of neither.                                                             *)
(***************************************************************************)
FilterPts == {Pt(2, 2), Pt(8, 8), Pt(40, 40)}
FilterStatuses == {"planned", "done"}

StoredOverlap ==
    { << [Zone(1, "rect", 0, 0, 12, 24, 0, 0, <<>>) EXCEPT !.hidden = h1, !.status = s1],
         [Zone(2, "rect", 6, 6, 12, 24, 0, 0, <<>>) EXCEPT !.hidden = h2, !.status = s2] >> :
        h1 \in BOOLEAN, h2 \in BOOLEAN, s1 \in FilterStatuses, s2 \in FilterStatuses }

InitFilter ==
    /\ \E zs \in StoredOverlap : dm = updateActiveLayout(dmInit, zs)
    /\ cm = newCanvasManager(dm)
    /\ gh = ghWatch({"mousedown"}, {"mousedown"})

NextFilter ==
    \/ SetShowHidden
    \/ ToggleStatus(FilterStatuses)
    \/ MouseDown(FilterPts, BOOLEAN)
    \/ MouseUp

SpecFilter == InitFilter /\ [][NextFilter]_vars

(***************************************************************************)
(* SpecLayoutCalls: addLayout, deleteLayout and setActiveLayout of the     *)
(* DataManager called in any order and with any id, also the id of no      *)
(* layout and the id of the only layout, from an empty project; shapes are *)
(* added in between so that undo and redo have entries of several layouts. *)
(* A layout is added while there are fewer than two.                       *)
(***************************************************************************)
LayoutIdArgs == 1..(MaxLayouts + 1)

SetActiveLayoutCall ==
    \E id \in LayoutIdArgs :
        StepTarget("setActiveLayout", id, R(cm, setActiveLayout(dm, id)))

DeleteLayoutCall ==
    \E id \in LayoutIdArgs :
        StepTarget("deleteLayout", id, R(cm, deleteLayout(dm, id)))

InitLayoutCalls ==
    /\ dm = dmInit
    /\ cm = newCanvasManager(dm)
    /\ gh = [ghWatch({"setActiveLayout", "deleteLayout"},
                     {"setActiveLayout", "deleteLayout"})
                EXCEPT !.budget = MaxLayoutEdits]

NextLayoutCalls ==
    \/ (Len(dm.layouts) < 2 /\ AddLayout)
    \/ SetActiveLayoutCall
    \/ DeleteLayoutCall
    \/ AddZone
    \/ KeyUndo
    \/ KeyRedo

SpecLayoutCalls == InitLayoutCalls /\ [][NextLayoutCalls]_vars

(***************************************************************************)
(* SpecVisible: every filter criterion is set and cleared on a stored      *)
(* project of four shapes: one planned over the turn of the year (Monday   *)
(* 2024-12-23, week 52, to Wednesday 2025-01-08, week 2), a hidden one     *)
(* planned within January 2025 (weeks 2 to 3), one without dates and one   *)
(* with a single date in week 1.  Names, comments and custom fields hold   *)
(* the letters a and b in either case.                                     *)
(***************************************************************************)
StoredPlan ==
    << [Zone(1, "rect", 0, 0, 12, 24, 0, 0, <<>>)
            EXCEPT !.name = <<"A", "b">>, !.discipline = "el",
                   !.startDate = Date(2024, 12, 23), !.endDate = Date(2025, 1, 8)],
       [Zone(2, "rect", 30, 0, 12, 24, 0, 0, <<>>)
            EXCEPT !.hidden = TRUE, !.name = <<"b">>, !.discipline = "vvs",
                   !.status = "done",
                   !.startDate = Date(2025, 1, 6), !.endDate = Date(2025, 1, 15)],
       [Zone(3, "rect", 60, 0, 12, 24, 0, 0, <<>>)
            EXCEPT !.customData = << <<"a", "B">> >>],
       [Zone(4, "rect", 90, 0, 12, 24, 0, 0, <<>>)
            EXCEPT !.comments = <<"b", "a">>, !.discipline = "el",
                   !.status = "done", !.date = Date(2025, 1, 1)] >>

FilterTexts == {<<>>, <<"b">>, <<"A", "B">>}
FilterDisciplines == {"el", "vvs"}
FilterDates == {NoDate, Date(2025, 1, 1), Date(2025, 1, 10)}
FilterWeeks == {{}, {1}, {2, 30}}
FilterWeekTexts == {<<>>, <<"1">>, <<"3", "0">>, <<" ", "2", "-", "3">>}

InitVisible ==
    /\ dm = updateActiveLayout(dmInit, StoredPlan)
    /\ cm = newCanvasManager(dm)
    /\ gh = ghInit

NextVisible ==
    \/ SetShowHidden
    \/ SetText(FilterTexts)
    \/ ToggleDiscipline(FilterDisciplines)
    \/ ToggleStatus(FilterStatuses)
    \/ SetDateStart(FilterDates)
    \/ SetDateEnd(FilterDates)
    \/ SetWeeks(FilterWeeks)
    \/ SetWeek(FilterWeekTexts)
    \/ ResetFilters

SpecVisible == InitVisible /\ [][NextVisible]_vars

(***************************************************************************)
(* SpecSelect: presses, drags and releases of the select tool, with and    *)
(* without the shift key, in a stored project of two layouts: two          *)
(* rectangles side by side in the first, one rectangle in the second.      *)
(* Escape clears the selection and the layout tabs switch the layout.  The *)
(* pointer visits an interior point of each rectangle of the first layout, *)
(* the top left corner of the first one and a point of the empty canvas;   *)
(* a gesture is a press, at most one move and a release, and the pointer   *)
(* moves in the gestures of a multi-selection that do not pan.             *)
(***************************************************************************)
SelectPts == {Pt(6, 12), Pt(36, 12), Pt(0, 0), Pt(60, 60)}

StoredLayouts ==
    LET first == updateActiveLayout(dmInit,
                    << Zone(1, "rect", 0, 0, 12, 24, 0, 0, <<>>),
                       Zone(2, "rect", 30, 0, 12, 24, 0, 0, <<>>) >>)
        second == updateActiveLayout(addLayout(first),
                    << Zone(3, "rect", 0, 0, 12, 24, 0, 0, <<>>) >>)
    IN  setActiveLayout(second, DefaultLayout)

InitSelect ==
    /\ dm = StoredLayouts
    /\ cm = newCanvasManager(dm)
    /\ gh = [ghWatch({}, {"mousedown", "mousemove"}) EXCEPT !.budget = MaxPresses]

NextSelect ==
    \/ MouseDown(SelectPts, BOOLEAN)
    \/ (gh.op = "mousedown" /\ Len(cm.selectedZoneIds) > 1 /\ ~cm.isPanning
            /\ MouseMove(SelectPts, {FALSE}))
    \/ MouseUp
    \/ KeyEscape
    \/ SetActiveLayout

SpecSelect == InitSelect /\ [][NextSelect]_vars

(***************************************************************************)
(* SpecWheel: wheel notches at three screen points (in tenths of a pixel), *)
(* from the view the constructor restores: a stored scale at either end of *)
(* the clamped range, next to one or in between, and a stored pan.         *)
(***************************************************************************)
WheelPts == {Pt(0, 0), Pt(30, 20), Pt(100, 70)}
StoredScales == {MinScale, 10, MaxScale - 1, MaxScale}
StoredPans == {Pt(0, 0), Pt(-30, 15)}

InitWheel ==
    /\ \E s \in StoredScales, pan \in StoredPans :
            dm = setViewState(dmInit, s, Pan(pan.x, pan.y, 1))
    /\ cm = newCanvasManager(dm)
    /\ gh = ghWatch({"wheel"}, {"wheel"})

NextWheel == Wheel(WheelPts)

SpecWheel == InitWheel /\ [][NextWheel]_vars

(***************************************************************************)
(* SpecView: the view of a stored project of two layouts.  Each layout     *)
(* has a background or none, of the size of the canvas in the first and    *)
(* a small one in the second, which stores a zoomed and panned view.  The user turns the      *)
(* wheel, fits the view, picks a background file for a layout without      *)
(* one, switches and closes layouts; loads end and the timer of the view save fires in between.     *)
(***************************************************************************)
ViewPts == {Pt(100, 70)}
ViewImages == {Image(900, 600), Image(100, 100)}

StoredViews ==
    { setActiveLayout(
          setBackgroundImage(
              setViewState(addLayout(setBackgroundImage(dmInit, first)),
                           20, Pan(-30, 15, 1)),
              second),
          DefaultLayout) : first \in {NoImage, Image(900, 600)},
                           second \in {NoImage, Image(100, 100)} }

InitView ==
    /\ dm \in StoredViews
    /\ cm = newCanvasManager(dm)
    /\ gh = ghWatch({"view"}, {"wheel"})

NextView ==
    \/ Wheel(ViewPts)
    \/ ZoomToFit
    \/ (getActiveLayout(dm).backgroundImage = NoImage /\ UploadBackground(ViewImages))
    \/ ImageLoaded
    \/ ImageFailed
    \/ SaveViewState
    \/ SetActiveLayout
    \/ DeleteLayout

SpecView == InitView /\ [][NextView]_vars

(***************************************************************************)
(* SpecResize: resize gestures of the select tool on a stored project of   *)
(* one box shape of 12 x 24 at the origin.  The pointer visits three of    *)
(* its corners, an interior point (a press there selects the shape, a move *)
(* there shrinks it) and a point below the shape, left of its right edge.  *)
(***************************************************************************)
BoxKinds == {"rect", "draw-rect", "ellipse", "symbol", "text"}
ResizePts == {Pt(0, 0), Pt(12, 0), Pt(12, 24), Pt(6, 12), Pt(9, 30)}

InitResize ==
    /\ \E k \in BoxKinds :
            dm = updateActiveLayout(dmInit, <<Zone(1, k, 0, 0, 12, 24, 0, 0, <<>>)>>)
    /\ cm = newCanvasManager(dm)
    /\ gh = ghWatch({"mousemove"}, {"mousemove"})

NextResize ==
    \/ MouseDown(ResizePts, {FALSE})
    \/ (~cm.isPanning /\ MouseMove(ResizePts, {FALSE}))
    \/ MouseUp

SpecResize == InitResize /\ [][NextResize]_vars

(***************************************************************************)
(* SpecRetract: presses of the select tool on a stored open polyline of    *)
(* three vertices on a line, 40 apart.  The pointer visits a point of the  *)
(* first segment and the places 35 pixels beyond either end of the         *)
(* polyline, before and after a vertex is taken away there; undo brings    *)
(* vertices back.                                                          *)
(***************************************************************************)
RetractPts == {Pt(20, 0), Pt(115, 0), Pt(75, 0), Pt(-35, 0), Pt(5, 0)}

InitRetract ==
    /\ dm = updateActiveLayout(dmInit,
                <<Zone(1, "draw-poly", 0, 0, 80, 0, 0, 0,
                       <<Pt(0, 0), Pt(40, 0), Pt(80, 0)>>)>>)
    /\ cm = newCanvasManager(dm)
    /\ gh = [ghWatch({"mousedown"}, {"mousedown"}) EXCEPT !.budget = MaxPresses]

NextRetract ==
    \/ MouseDown(RetractPts, {FALSE})
    \/ MouseUp
    \/ KeyEnter
    \/ KeyUndo

SpecRetract == InitRetract /\ [][NextRetract]_vars

(***************************************************************************)
(* SpecExtend: a stored open polyline of two vertices is selected,         *)
(* extended from either end by presses and finished with Enter or with a   *)
(* press next to the first vertex of the drawing buffer.                   *)
(***************************************************************************)
ExtendPts == {Pt(20, 0), Pt(60, 0), Pt(-20, 0), Pt(60, 30), Pt(90, 30), Pt(0, 5)}

InitExtend ==
    /\ dm = updateActiveLayout(dmInit,
                <<Zone(1, "draw-poly", 0, 0, 40, 0, 0, 0, <<Pt(0, 0), Pt(40, 0)>>)>>)
    /\ cm = newCanvasManager(dm)
    /\ gh = [ghWatch({"mousedown", "enter", "extend"}, {"mousedown"})
                EXCEPT !.budget = MaxPresses, !.polyBudget = MaxExtend]

NextExtend ==
    \/ MouseDown(ExtendPts, {FALSE})
    \/ MouseUp
    \/ KeyEnter

SpecExtend == InitExtend /\ [][NextExtend]_vars

(***************************************************************************)
(* SpecZones: updateZone and deleteZone of the DataManager called with any *)
(* id, on the stored project of two layouts: ids of shapes of the active   *)
(* layout, of the other layout and of no shape at all, with undo, redo and *)
(* layout switches in between.                                             *)
(***************************************************************************)
ZoneIdArgs == {1, 3, 4}

UpdateZoneCall ==
    \E id \in ZoneIdArgs, saveHistory \in BOOLEAN :
        LET r == R(cm, updateZone(dm, Zone(id, "rect", 6, 6, 12, 24, 0, 0, <<>>),
                                  saveHistory))
        IN  Bounded(r) /\ StepTarget("updateZone", id, r)

DeleteZoneCall ==
    \E id \in ZoneIdArgs :
        LET r == R(cm, deleteZone(dm, id))
        IN  Bounded(r) /\ StepTarget("deleteZone", id, r)

InitZones ==
    /\ dm = StoredLayouts
    /\ cm = newCanvasManager(dm)
    /\ gh = ghWatch({"updateZone", "deleteZone"}, {"updateZone", "deleteZone"})

NextZones ==
    \/ UpdateZoneCall
    \/ DeleteZoneCall
    \/ SetActiveLayout
    \/ KeyUndo
    \/ KeyRedo

SpecZones == InitZones /\ [][NextZones]_vars

(***************************************************************************)
(* SpecDelete: shapes of the stored project of two layouts are selected    *)
(* with and without the shift key and deleted with the Delete key, whose   *)
(* confirm dialog is answered either way; undo and redo follow.            *)
(***************************************************************************)
DeletePts == {Pt(6, 12), Pt(36, 12), Pt(60, 60)}

InitDelete ==
    /\ dm = StoredLayouts
    /\ cm = newCanvasManager(dm)
    /\ gh = [ghWatch({"delete"}, {"delete"}) EXCEPT !.budget = MaxPresses]

NextDelete ==
    \/ MouseDown(DeletePts, BOOLEAN)
    \/ MouseUp
    \/ KeyDelete
    \/ KeyUndo
    \/ KeyRedo

SpecDelete == InitDelete /\ [][NextDelete]_vars

(***************************************************************************)
(* SpecOrder: four rectangles side by side in one layout are selected with *)
(* and without the shift key and moved to the front or to the back with    *)
(* the context menu, with at most MaxOrderEdits undo entries.              *)
(***************************************************************************)
OrderPts == {Pt(6, 12), Pt(36, 12), Pt(66, 12), Pt(96, 12)}

StoredRow ==
    << Zone(1, "rect", 0, 0, 12, 24, 0, 0, <<>>),
       Zone(2, "rect", 30, 0, 12, 24, 0, 0, <<>>),
       Zone(3, "rect", 60, 0, 12, 24, 0, 0, <<>>),
       Zone(4, "rect", 90, 0, 12, 24, 0, 0, <<>>) >>

InitOrder ==
    /\ dm = updateActiveLayout(dmInit, StoredRow)
    /\ cm = newCanvasManager(dm)
    /\ gh = [ghWatch({"bringToFront", "sendToBack"}, {}) EXCEPT !.budget = MaxOrderEdits]

MenuBringToFront ==
    /\ ~gh.down
    /\ gh.edits < gh.budget
    /\ Step("bringToFront", R(cm, bringToFront(cm, dm)))

MenuSendToBack ==
    /\ ~gh.down
    /\ gh.edits < gh.budget
    /\ Step("sendToBack", R(cm, sendToBack(cm, dm)))

NextOrder ==
    \/ \E pos \in OrderPts, shiftKey \in BOOLEAN :
            /\ ~gh.down
            /\ gh.edits < gh.budget
            /\ StepKey("mousedown", pos, shiftKey,
                       handleMouseDown(cm, dm, Event(cm, pos, shiftKey)))
    \/ (gh.down /\ StepAnswer("mouseup", NoAnswer, handleMouseUp(cm, dm, NoAnswer)))
    \/ MenuBringToFront
    \/ MenuSendToBack

SpecOrder == InitOrder /\ [][NextOrder]_vars

(***************************************************************************)
(* SpecLinks: activities of an imported schedule are dropped on the two    *)
(* rectangles of a stored layout and on the empty canvas, and disconnected *)
(* again in the metadata panel; undo and redo follow, with at most         *)
(* MaxLinkEdits undo entries.  One activity has no start date.             *)
(***************************************************************************)
LinkPts == {Pt(6, 12), Pt(36, 12), Pt(60, 60)}

ScheduleRows ==
    { [code |-> "A10", title |-> <<"a">>, start |-> Date(2025, 1, 6), end |-> Date(2025, 1, 10),
       originalData |-> << <<"a">> >>],
      [code |-> "A20", title |-> <<"b">>, start |-> Date(2025, 1, 8), end |-> Date(2025, 2, 3),
       originalData |-> << <<"b">> >>],
      [code |-> "A30", title |-> <<"c">>, start |-> NoDate, end |-> Date(2024, 12, 20),
       originalData |-> << <<"c">> >>] }

StoredPair ==
    << Zone(1, "rect", 0, 0, 12, 24, 0, 0, <<>>),
       Zone(2, "rect", 30, 0, 12, 24, 0, 0, <<>>) >>

InitLinks ==
    /\ dm = updateActiveLayout(dmInit, StoredPair)
    /\ cm = newCanvasManager(dm)
    /\ gh = [ghWatch({"link", "disconnect"}, {"disconnect"}) EXCEPT !.budget = MaxLinkEdits]

NextLinks ==
    \/ DropActivity(LinkPts, ScheduleRows)
    \/ DisconnectActivity
    \/ SetZoneNameMode
    \/ KeyUndo
    \/ KeyRedo

SpecLinks == InitLinks /\ [][NextLinks]_vars

(***************************************************************************)
(* SpecRotate: a stored symbol is selected and turned by its rotate handle *)
(* while rectangles are drawn next to it, with at most MaxPresses undo     *)
(* entries.  The pointer visits an interior point and the rotate handle of *)
(* the symbol and a point away from it, and moves once in a gesture.       *)
(***************************************************************************)
RotatePts == {Pt(6, 12), Pt(6, -20), Pt(40, 30)}
RotateTools == {"select", "draw"}

InitRotate ==
    /\ dm = updateActiveLayout(dmInit, << Zone(1, "symbol", 0, 0, 12, 24, 0, 0, <<>>) >>)
    /\ cm = newCanvasManager(dm)
    /\ gh = [ghWatch({"mousemove"}, {"mousemove"}) EXCEPT !.budget = MaxPresses]

NextRotate ==
    \/ SetTool(RotateTools)
    \/ MouseDown(RotatePts, {FALSE})
    \/ (gh.op = "mousedown" /\ ~cm.isPanning /\ MouseMove(RotatePts, {FALSE}))
    \/ MouseUp

SpecRotate == InitRotate /\ [][NextRotate]_vars

(***************************************************************************)
(* SpecFlags: presses, moves and releases of the select and polygon tools  *)
(* on a stored rectangle, with the Escape key, tool switches and symbols   *)
(* dropped from the library, and at most MaxDrawn undo entries; a release  *)
(* may happen outside the canvas.  The pointer visits an interior point of *)
(* the rectangle and a point of the empty canvas.                          *)
(***************************************************************************)
FlagPts == {Pt(6, 12), Pt(60, 60)}
FlagTools == {"select", "poly"}

InitFlags ==
    /\ dm = updateActiveLayout(dmInit, << Zone(1, "rect", 0, 0, 12, 24, 0, 0, <<>>) >>)
    /\ cm = newCanvasManager(dm)
    /\ gh = [ghInit EXCEPT !.budget = MaxDrawn]

NextFlags ==
    \/ SetTool(FlagTools)
    \/ MouseDown(FlagPts, {FALSE})
    \/ (gh.op = "mousedown" /\ ~cm.isPanning /\ MouseMove(FlagPts, {FALSE}))
    \/ MouseUp
    \/ MouseUpOutside
    \/ KeyEscape
    \/ DropSymbol(FlagPts)

SpecFlags == InitFlags /\ [][NextFlags]_vars

(***************************************************************************)
(* SpecRedraw: the stored polyline of SpecExtend is selected and extended  *)
(* from its end; the extension is finished, or given up with Escape or a   *)
(* tool switch, and polylines are drawn afterwards.  The pointer visits a  *)
(* point of the polyline, the extend handle beyond its end and a point of  *)
(* the empty canvas.                                                       *)
(***************************************************************************)
RedrawPts == {Pt(20, 0), Pt(60, 0), Pt(60, 30)}
RedrawTools == {"select", "draw-poly"}

InitRedraw ==
    /\ dm = updateActiveLayout(dmInit,
                <<Zone(1, "draw-poly", 0, 0, 40, 0, 0, 0, <<Pt(0, 0), Pt(40, 0)>>)>>)
    /\ cm = newCanvasManager(dm)
    /\ gh = ghWatch({"mousedown", "enter", "extend"}, {"mousedown"})

NextRedraw ==
    \/ SetTool(RedrawTools)
    \/ MouseDown(RedrawPts, {FALSE})
    \/ MouseUp
    \/ KeyEnter
    \/ KeyEscape

SpecRedraw == InitRedraw /\ [][NextRedraw]_vars

(***************************************************************************)
(* SpecCrossUndo: shapes are added to and deleted from the layouts of the  *)
(* stored project of two layouts while the active layout is switched, with *)
(* undo and redo in between.                                               *)
(***************************************************************************)
InitCrossUndo ==
    /\ dm = StoredLayouts
    /\ cm = newCanvasManager(dm)
    /\ gh = ghWatch({"layouts"}, {})

NextCrossUndo ==
    \/ AddZone
    \/ DeleteZone
    \/ SetActiveLayout
    \/ KeyUndo
    \/ KeyRedo

SpecCrossUndo == InitCrossUndo /\ [][NextCrossUndo]_vars

(***************************************************************************)
(* SpecDebounce: the view of a stored project of two layouts without       *)
(* backgrounds.  The user turns the wheel and switches the layout; the     *)
(* timer of the debounced view save fires at any time after the last wheel *)
(* notch, before or after a switch.                                        *)
(***************************************************************************)
InitDebounce ==
    /\ dm = setActiveLayout(setViewState(addLayout(dmInit), 20, Pan(-30, 15, 1)),
                            DefaultLayout)
    /\ cm = newCanvasManager(dm)
    /\ gh = ghWatch({"left"}, {})

NextDebounce ==
    \/ Wheel(ViewPts)
    \/ SaveViewState
    \/ SetActiveLayout

SpecDebounce == InitDebounce /\ [][NextDebounce]_vars

(***************************************************************************)
(* SpecPrompt: calibrate gestures on the stored project of SpecCalibrate,  *)
(* the prompt being cancelled or answered with an empty text, a text       *)
(* without digits, a length, zero or a negative number.                    *)
(***************************************************************************)
PromptTexts ==
    { Cancelled, Text(<<>>), Text(<<"a">>), Text(<<"2">>), Text(<<" ", "3", "m">>),
      Text(<<"0">>), Text(<<"-", "2">>) }

InitPrompt ==
    /\ dm = StoredLengths
    /\ cm = newCanvasManager(dm)
    /\ gh = ghWatch({"mouseup"}, {"mouseup"})

NextPrompt ==
    \/ SetTool({"calibrate"})
    \/ (cm.activeTool = "calibrate" /\ MouseDown(CalPts, {FALSE}))
    \/ MouseMove(CalPts, {FALSE})
    \/ MouseUpPrompt(PromptTexts)
    \/ SetActiveLayout

SpecPrompt == InitPrompt /\ [][NextPrompt]_vars

(***************************************************************************)
(* C1: in a single layout, an undo() directly followed by a redo() leaves  *)
(* the shape list and the undo stack exactly as they were before the       *)
(* undo().                                                                 *)
(***************************************************************************)
UndoRedoRestores ==
    gh.undone.state = "undoredo" =>
        /\ activeZones(dm) = gh.undone.zones
        /\ dm.history = gh.undone.history

\* an undo() that removed a shape, followed by the redo() that brought it back
UndoRedoHappened ==
    /\ gh.undone.state = "undoredo"
    /\ Len(gh.undone.history) = 2
    /\ Len(activeZones(dm)) > Len(gh.undone.history[2].zones)

(***************************************************************************)
(* C6: a step other than undo, redo or a pointer move that changes the     *)
(* shape list or the undo stack (addZone, deleteZone, updateZone with      *)
(* history, bringToFront, sendToBack, the press that starts a drag, resize *)
(* or rotate) leaves the redo stack empty, and a redo() right after it     *)
(* changes nothing.                                                        *)
(***************************************************************************)
EditClearsRedo ==
    [][(/\ gh'.op \notin {"undo", "redo", "mousemove"}
        /\ (activeZones(dm') # activeZones(dm) \/ dm'.history # dm.history))
       => (dm'.redoStack = <<>> /\ redo(dm') = dm')]_vars

\* a release that added a drawn shape while there was something to redo
EditAfterUndo ==
    /\ gh.op = "mouseup"
    /\ gh.hadRedo
    /\ Len(activeZones(dm)) > 0
    /\ Len(dm.history) > 0
    /\ dm.redoStack = <<>>

(***************************************************************************)
(* C2: from the press that starts a drag, resize or rotate in the select   *)
(* tool, through any number of moves and the release, the undo stack is    *)
(* the stack as of the press plus one entry holding the shape list as of   *)
(* the press; the undo() after the release restores that shape list and    *)
(* that stack.                                                             *)
(***************************************************************************)
GestureOneEntry ==
    /\ gh.gesture.phase \in {"pressed", "released"} =>
            dm.history = Append(gh.gesture.history,
                                [layoutId |-> dm.activeLayoutId, zones |-> gh.gesture.zones])
    /\ gh.gesture.phase = "undone" =>
            /\ activeZones(dm) = gh.gesture.zones
            /\ dm.history = gh.gesture.history

\* a drag with at least one move, released and undone; the undo() had
\* something to restore
GestureUndone ==
    /\ gh.gesture.phase = "undone"
    /\ gh.gesture.kind = "drag"
    /\ gh.gesture.moved
    /\ dm.redoStack # <<>>
    /\ dm.redoStack[Len(dm.redoStack)].zones # gh.gesture.zones

(***************************************************************************)
(* C8: undo() with an empty undo stack and redo() with an empty redo stack *)
(* change nothing: layouts, active layout id, both stacks and the canvas   *)
(* state (selection included) stay as they are.                            *)
(***************************************************************************)
EmptyStackNoOp ==
    [][/\ (gh'.op = "undo" /\ dm.history = <<>>) => (dm' = dm /\ cm' = cm)
       /\ (gh'.op = "redo" /\ dm.redoStack = <<>>) => (dm' = dm /\ cm' = cm)]_vars

\* an undo() that found the undo stack empty, with a shape selected
UndoOnEmptyStack ==
    /\ gh.op = "undo"
    /\ gh.undone.state = "none"
    /\ dm.history = <<>>
    /\ cm.selectedZoneIds # <<>>
    /\ Len(activeZones(dm)) > 0

(***************************************************************************)
(* C3: every vertex-list shape (polygon, cloud, measure-area, draw-poly)   *)
(* of every layout has x, y, width and height equal to the bounds of its   *)
(* points.                                                                 *)
(***************************************************************************)
BoundsMatchPoints ==
    \A i \in DOMAIN dm.layouts :
        \A j \in DOMAIN dm.layouts[i].zones :
            LET z == dm.layouts[i].zones[j]
                b == boundsOf(z.points)
            IN  (z.type \in PolyKinds /\ Len(z.points) > 0) =>
                    /\ z.x = b.x /\ z.y = b.y
                    /\ z.width = b.width /\ z.height = b.height

(***************************************************************************)
(* C4: a pointer move during a drag translates the geometry of every       *)
(* selected shape by the pointer delta (every vertex of a vertex-list      *)
(* kind, both endpoints of a line kind, the origin of a box kind, sizes    *)
(* kept) and leaves every other shape unchanged.                           *)
(***************************************************************************)
Translated(z, dx, dy) ==
    IF z.type \in PolyKinds
    THEN [z EXCEPT !.points = [k \in DOMAIN z.points |->
                                  Pt(z.points[k].x + dx, z.points[k].y + dy)]]
    ELSE IF z.type \in LineKinds
    THEN [z EXCEPT !.x = @ + dx, !.y = @ + dy, !.x2 = @ + dx, !.y2 = @ + dy]
    ELSE [z EXCEPT !.x = @ + dx, !.y = @ + dy]

DragTranslates ==
    [][(gh'.op = "mousemove" /\ cm.isDragging /\ ~cm.isRotating
            /\ cm.selectedZoneIds # <<>>)
       => LET dx == cm'.startPos.x - cm.startPos.x
              dy == cm'.startPos.y - cm.startPos.y
              zs == activeZones(dm)
              zs2 == activeZones(dm')
          IN  /\ Len(zs2) = Len(zs)
              /\ \A j \in DOMAIN zs :
                    IF zs[j].id \in SeqToSet(cm.selectedZoneIds)
                    THEN LET t == Translated(zs[j], dx, dy)
                         IN  /\ zs2[j].points = t.points
                             /\ zs2[j].width = t.width /\ zs2[j].height = t.height
                             /\ (zs[j].type \notin PolyKinds =>
                                    zs2[j].x = t.x /\ zs2[j].y = t.y)
                             /\ (zs[j].type \in LineKinds =>
                                    zs2[j].x2 = t.x2 /\ zs2[j].y2 = t.y2)
                    ELSE zs2[j] = zs[j]]_vars

(***************************************************************************)
(* C5: an undo() that pops an entry tagged with layout L and holding the   *)
(* snapshot Z makes L the active layout with shape list Z and leaves the   *)
(* shape list of every other layout as it was, whatever layouts were       *)
(* added, switched or deleted since the entry was pushed.                  *)
(***************************************************************************)
UndoRestoresTaggedLayout ==
    [][(gh'.op = "undo" /\ dm.history # <<>>)
       => LET e == dm.history[Len(dm.history)]
          IN  /\ dm'.activeLayoutId = e.layoutId
              /\ e.layoutId \in layoutIds(dm')
              /\ getLayout(dm', e.layoutId).zones = e.zones
              /\ \A i \in DOMAIN dm.layouts :
                    dm.layouts[i].id # e.layoutId =>
                        /\ dm.layouts[i].id \in layoutIds(dm')
                        /\ getLayout(dm', dm.layouts[i].id).zones = dm.layouts[i].zones]_vars

(***************************************************************************)
(* C7: the undo stack and the redo stack never hold more than maxHistory   *)
(* (50) entries, and a push on a full undo stack discards its oldest entry *)
(* and keeps the others in order, the new entry last.                      *)
(***************************************************************************)
HistoryCapped ==
    /\ [](Len(dm.history) <= maxHistory /\ Len(dm.redoStack) <= maxHistory)
    /\ [][(gh'.op = "addZone" /\ Len(dm.history) = maxHistory)
          => dm'.history = Append(Tail(dm.history),
                                  [layoutId |-> dm.activeLayoutId,
                                   zones |-> activeZones(dm)])]_vars

\* more than maxHistory pushes, then every entry undone: the redo stack is
\* as long as it gets
HistoryFilled ==
    /\ gh.edits > maxHistory
    /\ Len(dm.redoStack) = maxHistory
    /\ dm.history = <<>>

(***************************************************************************)
(* C10: no polygon, cloud or measure-area of any layout has fewer than 3   *)
(* vertices.                                                               *)
(***************************************************************************)
ClosedShapesHaveThreeVertices ==
    \A i \in DOMAIN dm.layouts :
        \A j \in DOMAIN dm.layouts[i].zones :
            dm.layouts[i].zones[j].type \in {"polygon", "cloud", "measure-area"} =>
                Len(dm.layouts[i].zones[j].points) >= 3

(***************************************************************************)
(* C9: with a multi-point tool active and k >= 1 vertices buffered, a      *)
(* press within 10 / scale of the first buffered vertex: for k >= 3 adds   *)
(* one shape to the active layout, its vertex list the k buffered          *)
(* vertices, empties the buffer and makes select the active tool; for      *)
(* k < 3 appends the pressed position to the buffer and changes neither    *)
(* shapes nor history.                                                     *)
(***************************************************************************)
ClosingPressCommits ==
    [][(/\ gh'.op = "mousedown"
        /\ cm.activeTool \in PolyTools
        /\ Len(cm.polyPoints) >= 1
        /\ Within(Dist2(gh'.pos, cm.polyPoints[1]), cm))
       => IF Len(cm.polyPoints) >= 3
          THEN /\ Len(activeZones(dm')) = Len(activeZones(dm)) + 1
               /\ SubSeq(activeZones(dm'), 1, Len(activeZones(dm))) = activeZones(dm)
               /\ activeZones(dm')[Len(activeZones(dm'))].points = cm.polyPoints
               /\ cm'.polyPoints = <<>>
               /\ cm'.activeTool = "select"
          ELSE /\ cm'.polyPoints = Append(cm.polyPoints, gh'.pos)
               /\ activeZones(dm') = activeZones(dm)
               /\ dm'.history = dm.history]_vars

(***************************************************************************)
(* C11: a release that ends a box, line or calibrate gesture whose result  *)
(* does not exceed the minimum size (box tools: width > 5 and height > 5;  *)
(* line tools: length > 5; calibrate: length > 10) leaves the data as it   *)
(* was: the layouts with their shape lists and calibration factors, the    *)
(* undo stack and the redo stack.                                          *)
(***************************************************************************)
\* the release that ran last ended a drawing gesture of a tool in tools
ReleasedWith(tools) ==
    /\ gh.op = "mouseup"
    /\ gh.pre.cm.isDrawing
    /\ gh.pre.cm.activeTool \in tools

\* the squared length of the line the release that ran last ended
ReleasedLen2 ==
    Sq(gh.pre.cm.tempZone.x2 - gh.pre.cm.tempZone.x)
        + Sq(gh.pre.cm.tempZone.y2 - gh.pre.cm.tempZone.y)

SmallRelease ==
    \/ /\ ReleasedWith(BoxTools)
       /\ ~(Abs(gh.pre.cm.tempZone.width) > 5 /\ Abs(gh.pre.cm.tempZone.height) > 5)
    \/ ReleasedWith(LineTools) /\ ReleasedLen2 <= 25
    \/ ReleasedWith({"calibrate"}) /\ ReleasedLen2 <= 100

SmallReleaseDiscarded ==
    SmallRelease =>
        /\ dm.layouts = gh.pre.dm.layouts
        /\ dm.history = gh.pre.dm.history
        /\ dm.redoStack = gh.pre.dm.redoStack

\* a line of length exactly 5 was released with a redo entry waiting
SmallReleaseAfterUndo ==
    /\ SmallRelease
    /\ ReleasedWith(LineTools)
    /\ ReleasedLen2 = 25
    /\ Len(dm.redoStack) > 0

(***************************************************************************)
(* C12: the shape a box tool commits on release has                        *)
(* x = min(a.x, b.x), y = min(a.y, b.y), width = |a.x - b.x| and           *)
(* height = |a.y - b.y|, where a is the point of the press and b the point *)
(* of the last pointer move of the gesture, in whichever direction the     *)
(* pointer was dragged.                                                    *)
(***************************************************************************)
\* the release that ran last added a shape
Committed ==
    /\ gh.op = "mouseup"
    /\ Len(activeZones(dm)) = Len(activeZones(gh.pre.dm)) + 1

\* the shape the release that ran last added
CommittedZone == activeZones(dm)[Len(activeZones(dm))]

BoxNormalized ==
    ReleasedWith(BoxTools) /\ Committed =>
        LET a == gh.pre.cm.startPos
            b == gh.pre.pos
        IN  /\ CommittedZone.x = Min({a.x, b.x})
            /\ CommittedZone.y = Min({a.y, b.y})
            /\ CommittedZone.width = Abs(a.x - b.x)
            /\ CommittedZone.height = Abs(a.y - b.y)

\* the rectangle scenario, dragged from the bottom right corner to the
\* top left one
BoxDraggedBackwards ==
    /\ ReleasedWith(BoxTools) /\ Committed
    /\ gh.pre.cm.startPos = Pt(110, 60)
    /\ gh.pre.pos = Pt(10, 10)
    /\ CommittedZone.x = 10 /\ CommittedZone.y = 10
    /\ CommittedZone.width = 100 /\ CommittedZone.height = 50

(***************************************************************************)
(* C13: when the release of a draw-rect, ellipse, measure-length, line or  *)
(* arrow gesture commits a shape the active tool becomes 'select'.  As     *)
(* claimed, a calibrate release leaves the calibrate tool active           *)
(* (ReleaseKeepsCalibrateTool); in the code a calibrate release makes      *)
(* 'select' the active tool as well, whether or not it stores a            *)
(* calibration (ReleaseReturnsToSelect).                                   *)
(***************************************************************************)
ReturningTools == {"draw-rect", "ellipse", "measure-length", "line", "arrow"}

CommitReturnsToSelect ==
    ReleasedWith(ReturningTools) /\ Committed => cm.activeTool = "select"

ReleaseKeepsCalibrateTool ==
    /\ CommitReturnsToSelect
    /\ (ReleasedWith({"calibrate"}) => cm.activeTool = "calibrate")

ReleaseReturnsToSelect ==
    /\ CommitReturnsToSelect
    /\ (ReleasedWith({"calibrate"}) => cm.activeTool = "select")

\* a calibrate release stored a calibration factor
CalibrationStored ==
    /\ ReleasedWith({"calibrate"})
    /\ getActiveLayout(dm).calibrationScale # getActiveLayout(gh.pre.dm).calibrationScale

(***************************************************************************)
(* C14: a calibrate gesture of length d pixels, d > 10, answered with the  *)
(* real length r sets the calibration factor of the active layout to d / r *)
(* and leaves the factor of every other layout as it was; the label of a   *)
(* measure-length shape of p pixels in that layout then shows p / (d / r), *)
(* printed with two decimals.  A line of 200 pixels answered with 2 gives  *)
(* 100 pixels per unit and the shape of 50 pixels shows 0.50.              *)
(***************************************************************************)
\* the release that ran last ended a calibrate gesture above the
\* threshold and its prompt was answered with a length
Calibrated ==
    /\ ReleasedWith({"calibrate"})
    /\ ReleasedLen2 > 100
    /\ gh.answer.ok

CalibrationFactor ==
    Calibrated =>
        LET factor == getActiveLayout(dm).calibrationScale
            r == gh.answer.meters
        IN  \* factor = d / r, both sides squared and cross-multiplied
            /\ factor.meters > 0 /\ factor.d2 > 0
            /\ factor.d2 * Sq(r) = ReleasedLen2 * Sq(factor.meters)
            /\ dm.activeLayoutId = gh.pre.dm.activeLayoutId
            /\ \A i \in DOMAIN dm.layouts :
                    dm.layouts[i].id # dm.activeLayoutId =>
                        dm.layouts[i] = gh.pre.dm.layouts[i]
            /\ \A j \in DOMAIN activeZones(dm) :
                    LET zone == activeZones(dm)[j]
                        p2 == Sq(zone.x2 - zone.x) + Sq(zone.y2 - zone.y)
                    IN  zone.type = "measure-length" =>
                            \* label = p / (d / r) = p * r / d to two decimals
                            lengthLabel(dm, zone) = toFixed2(p2 * Sq(r), ReleasedLen2, 0)

\* 200 pixels mapped to 2 units in the layout of the 50-pixel shape, with
\* the other layout calibrated before to another factor
CalibrationScenario ==
    /\ Calibrated
    /\ ReleasedLen2 = 200 * 200 /\ gh.answer.meters = 2
    /\ getActiveLayout(dm).calibrationScale.d2
            = 100 * 100 * Sq(getActiveLayout(dm).calibrationScale.meters)
    /\ Len(activeZones(dm)) = 1
    /\ activeZones(dm)[1].x2 - activeZones(dm)[1].x = 50
    /\ activeZones(dm)[1].y2 = activeZones(dm)[1].y
    /\ lengthLabel(dm, activeZones(dm)[1]) = 50
    /\ \E i \in DOMAIN dm.layouts :
            /\ dm.layouts[i].id # dm.activeLayoutId
            /\ dm.layouts[i].calibrationScale.d2 = 12500

(***************************************************************************)
(* C15: Escape while a multi-point draw is in progress empties the vertex  *)
(* buffer and ends the draw without committing: the layouts with their     *)
(* shape lists, the undo stack and the redo stack are as before the key,   *)
(* and an Enter that follows the Escape changes nothing.                   *)
(***************************************************************************)
\* the event that ran last is an Escape pressed during a multi-point draw
EscapedDraw ==
    /\ gh.op = "escape"
    /\ gh.pre.cm.isDrawing
    /\ gh.pre.cm.activeTool \in PolyTools
    /\ Len(gh.pre.cm.polyPoints) > 0

EscapeDiscardsBuffer ==
    /\ EscapedDraw =>
            /\ cm.polyPoints = <<>>
            /\ ~cm.isDrawing
            /\ dm = gh.pre.dm
    /\ (gh.op = "enter" /\ gh.pre.op = "escape") =>
            /\ dm = gh.pre.dm
            /\ cm = gh.pre.cm

\* Escape discarded a buffer of two or more vertices, which Enter would
\* have committed, with an entry on the redo stack
EscapedCommittableBuffer ==
    /\ EscapedDraw
    /\ Len(gh.pre.cm.polyPoints) > 1
    /\ Len(dm.redoStack) > 0

(***************************************************************************)
(* C16: a press in the select tool is resolved in strict priority order.   *)
(* If exactly one shape is selected and the press lies within the handle   *)
(* radius of one of its handles, a resize, rotate, vertex or endpoint edit *)
(* of that shape starts and the selection is unchanged, even when another  *)
(* visible shape lies under the pointer; otherwise, if a visible shape     *)
(* contains the point, a drag starts with that shape selected or toggled;  *)
(* otherwise a pan starts.  Exactly one of the three outcomes occurs.      *)
(***************************************************************************)
\* the handle of the single selected shape at pos, NoHandle when there is
\* no such shape or no handle there
HandleAt(pos) ==
    IF Len(cm.selectedZoneIds) = 1 /\ getZone(dm, cm.selectedZoneIds[1]) # NoZone
    THEN getResizeHandle(cm, pos, getZone(dm, cm.selectedZoneIds[1]))
    ELSE NoHandle

\* the gestures the step starts, among edit (resize or rotate), drag, pan
Started ==
    (IF cm'.isResizing \/ cm'.isRotating THEN {"edit"} ELSE {})
        \cup (IF cm'.isDragging THEN {"drag"} ELSE {})
        \cup (IF cm'.isPanning THEN {"pan"} ELSE {})

PressResolves ==
    (gh'.op = "mousedown" /\ cm.activeTool = "select" /\ ~cm.isSizingSymbol) =>
        IF HandleAt(gh'.pos) # NoHandle
        THEN /\ Started = {"edit"}
             /\ cm'.selectedZoneIds = cm.selectedZoneIds
             /\ cm'.isRotating = (HandleAt(gh'.pos).h = "rotate")
        ELSE IF getZoneAt(cm, dm, gh'.pos) # NoZone
        THEN Started = {"drag"}
        ELSE Started = {"pan"}

PressResolvedInOrder == [][PressResolves]_vars

(***************************************************************************)
(* C17: getZoneAt(p) returns the shape latest in array order among the     *)
(* shapes of the active layout that pass the filter predicate and contain  *)
(* p, and null when no such shape exists; a press adds to the selection    *)
(* only a shape that passes the filters, also when a shape that does not   *)
(* lies above it.                                                          *)
(***************************************************************************)
\* the indices of the shapes of the active layout that pass the filters
\* and contain p
VisibleHits(p) ==
    {i \in DOMAIN activeZones(dm) :
        /\ passesFilters(dm, activeZones(dm)[i])
        /\ zoneContains(activeZones(dm)[i], p, cm)}

\* the ids the press that ran last added to the selection
Added == SeqToSet(cm.selectedZoneIds) \ SeqToSet(gh.pre.cm.selectedZoneIds)

PressOnShape ==
    /\ gh'.op = "mousedown"
    /\ cm.activeTool = "select"
    /\ ~cm.isSizingSymbol
    /\ HandleAt(gh'.pos) = NoHandle
    /\ getZoneAt(cm, dm, gh'.pos) # NoZone

\* the selection set with the membership of id flipped
Toggled(ids, id) == IF id \in ids THEN ids \ {id} ELSE ids \cup {id}

ShiftPressToggles ==
    (PressOnShape /\ gh'.shift) =>
        SeqToSet(cm'.selectedZoneIds) =
            Toggled(SeqToSet(cm.selectedZoneIds), getZoneAt(cm, dm, gh'.pos).id)

ShiftPressTogglesOne == [][ShiftPressToggles]_vars

(***************************************************************************)
(* C19: a plain press (no shift key) in the select tool on an unselected   *)
(* shape s makes the selection exactly {s}; a plain press on a shape that  *)
(* is already a member of a multi-selection leaves the selection set       *)
(* unchanged and starts a drag, and the pointer move of that drag moves    *)
(* every member by the pointer delta and no other shape.  The press is one *)
(* that reaches the shape under the pointer.                               *)
(***************************************************************************)
PlainPressSelects ==
    (PressOnShape /\ ~gh'.shift) =>
        LET s == getZoneAt(cm, dm, gh'.pos).id
            ids == SeqToSet(cm.selectedZoneIds)
        IN  IF s \notin ids
            THEN SeqToSet(cm'.selectedZoneIds) = {s}
            ELSE Cardinality(ids) > 1 =>
                    /\ SeqToSet(cm'.selectedZoneIds) = ids
                    /\ Started = {"drag"}

GroupDragMoves ==
    (gh'.op = "mousemove" /\ cm.isDragging /\ Len(cm.selectedZoneIds) > 1) =>
        LET dx == gh'.pos.x - cm.startPos.x
            dy == gh'.pos.y - cm.startPos.y
            zs == activeZones(dm)
            zs2 == activeZones(dm')
        IN  /\ Len(zs2) = Len(zs)
            /\ \A j \in DOMAIN zs :
                    zs2[j] = IF zs[j].id \in SeqToSet(cm.selectedZoneIds)
                             THEN Translated(zs[j], dx, dy)
                             ELSE zs[j]

PlainPressSelectsOrDrags == [][PlainPressSelects /\ GroupDragMoves]_vars

(***************************************************************************)
(* C20: for any zoom step at a screen point s (either direction, any scale *)
(* of the clamped range, steps that hit the clamp included) the model      *)
(* point under s is the same before and after the step:                    *)
(* (s - offset') / scale' = (s - offset) / scale.                          *)
(***************************************************************************)
ZoomKeepsPointUnderCursor ==
    gh.op = "wheel" => getMousePos(cm, gh.pos) = getMousePos(gh.pre.cm, gh.pos)

\* a notch that starts at an end of the clamped range, reached by a notch
\* before it with an offset that is no whole number, changed the scale and
\* moved the offset
ZoomedAfterClamp ==
    /\ gh.op = "wheel"
    /\ cm.scale # gh.pre.cm.scale
    /\ cm.offset # gh.pre.cm.offset
    /\ gh.pre.op = "wheel"
    /\ gh.pre.cm.scale \in {MinScale, MaxScale}
    /\ gh.pre.cm.offsetDen > 1

(***************************************************************************)
(* C21: in every reachable state the view scale lies in the configured     *)
(* range [0.1, 5.0], whichever operation set it last: wheel or button      *)
(* zoom, zoomToFit, setBackground on a background load, or the restore of  *)
(* the stored scale of a layout.                                           *)
(***************************************************************************)
ScaleWithinRange == MinScale <= cm.scale /\ cm.scale <= MaxScale

(***************************************************************************)
(* C22: whenever the active layout changes to a layout L (tab switch, undo *)
(* or redo across layouts, deletion of the active layout), the view        *)
(* transform (scale, offsetX, offsetY) becomes the stored scale and pan of *)
(* L and stays so until the user pans or zooms, also after the background  *)
(* image of L has finished loading.                                        *)
(***************************************************************************)
ViewRestored ==
    gh.restored # NoId =>
        LET L == getActiveLayout(dm)
        IN  /\ L.id = gh.restored
            /\ cm.scale = (IF L.scale = 0 THEN 10 ELSE L.scale)
            /\ panOf(cm) = L.pan

(***************************************************************************)
(* C23: resizing a box shape (rect, draw-rect, ellipse, symbol, text) by a *)
(* corner handle never yields width <= 5 or height <= 5 and never inverts  *)
(* the box: a move that would do so leaves the shape unchanged, and every  *)
(* accepted move keeps the edges opposite to the dragged corner fixed.     *)
(***************************************************************************)
\* the last event was a pointer move of a corner resize of a box shape
CornerMoved ==
    /\ gh.op = "mousemove"
    /\ gh.pre.cm.isResizing
    /\ Len(gh.pre.cm.selectedZoneIds) = 1
    /\ gh.pre.cm.resizeHandle.h \in {"tl", "tr", "bl", "br"}
    /\ getZone(gh.pre.dm, gh.pre.cm.selectedZoneIds[1]).type \in BoxKinds

ResizeKeepsFloor ==
    CornerMoved =>
        LET h == gh.pre.cm.resizeHandle.h
            z == getZone(gh.pre.dm, gh.pre.cm.selectedZoneIds[1])
            z2 == getZone(dm, z.id)
        IN  \/ z2 = z
            \/ /\ z2.width > 5 /\ z2.height > 5
               /\ z2 = [z EXCEPT !.x = z2.x, !.y = z2.y,
                                 !.width = z2.width, !.height = z2.height]
               /\ (h \in {"tl", "bl"} => z2.x + z2.width = z.x + z.width)
               /\ (h \in {"tr", "br"} => z2.x = z.x)
               /\ (h \in {"tl", "tr"} => z2.y + z2.height = z.y + z.height)
               /\ (h \in {"bl", "br"} => z2.y = z.y)

\* a move was accepted and the move after it, which would leave the box
\* less than the floor wide, was refused
ResizeRefusedAfterResize ==
    /\ CornerMoved
    /\ gh.pre.op = "mousemove"
    /\ getZone(dm, 1) = getZone(gh.pre.dm, 1)
    /\ getZone(dm, 1).type = "rect"
    /\ getZone(dm, 1).width # 12
    /\ gh.pre.cm.resizeHandle.h = "tl"
    /\ getZone(dm, 1).x + getZone(dm, 1).width - gh.pos.x <= 5

(***************************************************************************)
(* C24: pressing a retract handle of the selected open polyline removes    *)
(* exactly its terminal vertex at that end (the first for remove-start,    *)
(* the last for remove-end); if fewer than two vertices would remain the   *)
(* shape is deleted and the selection cleared, so no open polyline         *)
(* (draw-poly) in any layout ever has fewer than two vertices.             *)
(***************************************************************************)
\* the retract handle the last press hit on the single selected open
\* polyline, "null" when it hit none
Retracted ==
    IF /\ gh.op = "mousedown"
       /\ gh.pre.cm.activeTool = "select"
       /\ Len(gh.pre.cm.selectedZoneIds) = 1
       /\ getZone(gh.pre.dm, gh.pre.cm.selectedZoneIds[1]).type = "draw-poly"
    THEN LET h == getResizeHandle(gh.pre.cm, gh.pos,
                      getZone(gh.pre.dm, gh.pre.cm.selectedZoneIds[1])).h
         IN  IF h \in {"remove-start", "remove-end"} THEN h ELSE "null"
    ELSE "null"

RetractRemovesTerminal ==
    /\ \A i \in DOMAIN dm.layouts : \A j \in DOMAIN dm.layouts[i].zones :
            dm.layouts[i].zones[j].type = "draw-poly" =>
                Len(dm.layouts[i].zones[j].points) >= 2
    /\ Retracted # "null" =>
            LET z == getZone(gh.pre.dm, gh.pre.cm.selectedZoneIds[1])
                n == Len(z.points)
                rest == IF Retracted = "remove-start" THEN SubSeq(z.points, 2, n)
                        ELSE SubSeq(z.points, 1, n - 1)
            IN  IF n - 1 < 2
                THEN /\ getZone(dm, z.id) = NoZone
                     /\ cm.selectedZoneIds = <<>>
                     /\ Len(activeZones(dm)) = Len(activeZones(gh.pre.dm)) - 1
                ELSE /\ getZone(dm, z.id).points = rest
                     /\ Len(activeZones(dm)) = Len(activeZones(gh.pre.dm))
                     /\ cm.selectedZoneIds = gh.pre.cm.selectedZoneIds

\* the polyline lost its last vertex and then, down to two vertices, was
\* deleted by a press on the retract handle of its start
RetractedToNothing ==
    /\ Retracted = "remove-start"
    /\ Len(getZone(gh.pre.dm, 1).points) = 2
    /\ getZone(gh.pre.dm, 1).points[2] = Pt(40, 0)
    /\ activeZones(dm) = <<>>

(***************************************************************************)
(* C25: extending an open polyline with vertices p1..pn by new presses     *)
(* q1..qk and finishing yields the vertex list p1..pn,q1..qk when extended *)
(* from the end and qk..q1,p1..pn when extended from the start: the        *)
(* original vertices keep their order, and the shape keeps its id and      *)
(* metadata (no new shape is added).                                       *)
(***************************************************************************)
\* a shape without its vertices and the bounding box computed from them
Metadata(z) == [z EXCEPT !.points = <<>>, !.x = 0, !.y = 0, !.width = 0, !.height = 0]

ExtendKeepsOrder ==
    gh.extend.done =>
        LET old == getZone(gh.pre.dm, gh.extend.id)
            new == getZone(dm, gh.extend.id)
        IN  /\ new # NoZone
            /\ new.points = IF gh.extend.from = "add-end"
                            THEN gh.extend.points \o gh.extend.presses
                            ELSE Reverse(gh.extend.presses) \o gh.extend.points
            /\ Metadata(new) = Metadata(old)
            /\ Len(activeZones(dm)) = Len(activeZones(gh.pre.dm))
            /\ \A i \in DOMAIN activeZones(dm) :
                    \/ activeZones(dm)[i] = activeZones(gh.pre.dm)[i]
                    \/ activeZones(dm)[i].id = gh.extend.id

\* two different presses extended the polyline from its start
ExtendedFromStartByTwo ==
    /\ gh.extend.done
    /\ gh.extend.from = "add-start"
    /\ Len(gh.extend.presses) = 2
    /\ gh.extend.presses[1] # gh.extend.presses[2]
    /\ getZone(dm, gh.extend.id).points # gh.extend.points \o gh.extend.presses

(***************************************************************************)
(* C26: updateZone or deleteZone called with an id that matches no shape   *)
(* in the active layout is a no-op: the shape list, the undo stack and the *)
(* redo stack are all left unchanged (and no exception escapes).           *)
(***************************************************************************)
UnknownIdIsNoOp ==
    (gh.op \in {"updateZone", "deleteZone"}
        /\ getZone(gh.pre.dm, gh.target) = NoZone)
    => /\ dm.layouts = gh.pre.dm.layouts
       /\ dm.history = gh.pre.dm.history
       /\ dm.redoStack = gh.pre.dm.redoStack

(***************************************************************************)
(* C27: getVisibleZones keeps a shape iff it passes every non-empty        *)
(* criterion (hidden, text, discipline, status, date range, week): the     *)
(* shapes visible under a combined filter are those visible under each     *)
(* criterion alone, and with every criterion empty and showHidden false    *)
(* exactly the non-hidden shapes are visible, in unchanged order.          *)
(***************************************************************************)
\* the filter fields of each criterion
CriterionFields ==
    [hidden |-> {"showHidden"}, text |-> {"text"}, discipline |-> {"disciplines"},
     status |-> {"statuses"}, date |-> {"dateStart", "dateEnd"},
     week |-> {"weeks", "week"}]

\* the filters that keep one criterion of the current ones and drop no
\* shape for any other
Alone(c) ==
    [k \in DOMAIN NoFilters |->
        IF k \in CriterionFields[c] THEN dm.filters[k]
        ELSE IF k = "showHidden" THEN TRUE ELSE NoFilters[k]]

VisibleUnder(filters) == SeqToSet(getVisibleZones([dm EXCEPT !.filters = filters]))

VisibleIsIntersection ==
    LET inAll(z) == \A c \in DOMAIN CriterionFields : z \in VisibleUnder(Alone(c))
        shown(z) == ~z.hidden
    IN  /\ getVisibleZones(dm) = SelectSeq(allZones(dm), inAll)
        /\ dm.filters = NoFilters => getVisibleZones(dm) = SelectSeq(allZones(dm), shown)

\* a text and a week criterion that each drop a shape the other keeps
TwoCriteriaCombined ==
    /\ dm.filters.text # <<>>
    /\ dm.filters.weeks # {}
    /\ getVisibleZones(dm) # <<>>
    /\ VisibleUnder(Alone("text")) \ VisibleUnder(Alone("week")) # {}
    /\ VisibleUnder(Alone("week")) \ VisibleUnder(Alone("text")) # {}

(***************************************************************************)
(* C28: under a week filter (single week, week range or week list), a      *)
(* shape is visible iff some filtered week overlaps the ISO weeks covered   *)
(* by the shape's date range from startDate to endDate, including date     *)
(* ranges that cross a year boundary (e.g. from week 52 to week 2).        *)
(***************************************************************************)
\* the weeks the week criterion asks for; empty when it asks for none
FilteredWeeks ==
    LET parts == split(trim(dm.filters.week))
    IN  IF dm.filters.weeks # {} THEN dm.filters.weeks
        ELSE IF Len(parts) > 1
        THEN parseInt(trim(parts[1]))..parseInt(trim(parts[2]))
        ELSE {parseInt(trim(dm.filters.week))} \ {NaN}

\* the ISO weeks of the days from the start to the end of a shape
WeeksCovered(z) ==
    LET zStart == IF z.startDate # NoDate THEN z.startDate ELSE z.date
        zEnd == IF z.endDate # NoDate THEN z.endDate ELSE z.date
    IN  IF zStart = NoDate /\ zEnd = NoDate THEN {}
        ELSE {getWeekNumber(day) :
                day \in newDate(IF zStart # NoDate THEN zStart ELSE zEnd)
                         ..newDate(IF zEnd # NoDate THEN zEnd ELSE zStart)}

WeekFilterMatchesCoveredWeeks ==
    FilteredWeeks # {} =>
        \A i \in DOMAIN allZones(dm) :
            allZones(dm)[i] \in VisibleUnder(Alone("week"))
                <=> FilteredWeeks \cap WeeksCovered(allZones(dm)[i]) # {}

(***************************************************************************)
(* C29: after any sequence of addLayout, deleteLayout, setActiveLayout,    *)
(* undo and redo, the layout list is non-empty and activeLayoutId equals   *)
(* the id of exactly one layout in it: deleteLayout refuses to remove the  *)
(* last layout, re-targets the active id when the active layout is         *)
(* deleted, and setActiveLayout ignores unknown ids.                       *)
(***************************************************************************)
ActiveLayoutExists ==
    /\ Len(dm.layouts) >= 1
    /\ Cardinality({i \in DOMAIN dm.layouts : dm.layouts[i].id = dm.activeLayoutId}) = 1
    /\ (gh.op = "deleteLayout" /\ Len(gh.pre.dm.layouts) = 1) => dm = gh.pre.dm
    /\ (gh.op = "deleteLayout" /\ Len(gh.pre.dm.layouts) > 1
            /\ gh.target = gh.pre.dm.activeLayoutId)
        => /\ gh.target \notin layoutIds(dm)
           /\ dm.activeLayoutId = dm.layouts[1].id
    /\ (gh.op = "setActiveLayout" /\ gh.target \notin layoutIds(gh.pre.dm))
        => dm = gh.pre.dm

\* the active layout was deleted after an undo had switched to it
ActiveLayoutDeleted ==
    /\ gh.op = "deleteLayout"
    /\ gh.pre.op = "undo"
    /\ Len(gh.pre.dm.layouts) > 1
    /\ gh.target = gh.pre.dm.activeLayoutId
    /\ gh.pre.dm.redoStack # <<>>

(***************************************************************************)
(* C30: deleting the current selection of k >= 2 shapes                    *)
(* (deleteSelectedZones) places one history boundary at the commit of the  *)
(* delete operation: a single undo() afterwards restores the shape list to *)
(* its pre-delete content with all k shapes present.                       *)
(***************************************************************************)
UndoRestoresDeletedSelection ==
    gh.deleted.phase = "undone" => activeZones(dm) = gh.deleted.zones

(***************************************************************************)
(* C31: bringToFront (sendToBack) moves exactly the selected shapes to the *)
(* end (start) of the active layout's shape list: the result is a          *)
(* permutation of the previous list in which the unselected shapes keep    *)
(* their relative order and the selected shapes keep theirs, and applying  *)
(* the same operation twice gives the same list as applying it once.       *)
(***************************************************************************)
SelectedIn(zones, ids) == SelectSeq(zones, LAMBDA z : z.id \in ids)

UnselectedIn(zones, ids) == SelectSeq(zones, LAMBDA z : z.id \notin ids)

\* the selected shapes of the list stand at its end
SelectedLast(zones, ids) ==
    \A i, j \in DOMAIN zones : (zones[i].id \in ids /\ zones[j].id \notin ids) => j < i

\* the selected shapes of the list stand at its start
SelectedFirst(zones, ids) ==
    \A i, j \in DOMAIN zones : (zones[i].id \in ids /\ zones[j].id \notin ids) => i < j

ReorderIsStablePartition ==
    (gh.op \in {"bringToFront", "sendToBack"} /\ gh.pre.cm.selectedZoneIds # <<>>)
    => LET old == activeZones(gh.pre.dm)
           new == activeZones(dm)
           ids == SeqToSet(gh.pre.cm.selectedZoneIds)
       IN  /\ Len(new) = Len(old)
           /\ SeqToSet(new) = SeqToSet(old)
           /\ SelectedIn(new, ids) = SelectedIn(old, ids)
           /\ UnselectedIn(new, ids) = UnselectedIn(old, ids)
           /\ gh.op = "bringToFront" => SelectedLast(new, ids)
           /\ gh.op = "sendToBack" => SelectedFirst(new, ids)
           /\ gh.pre.op = gh.op => new = old
           /\ cm.selectedZoneIds = gh.pre.cm.selectedZoneIds

\* two shapes selected in the order opposite to the list's were moved past
\* two unselected shapes, and the same operation was applied again
ReorderedTwice ==
    /\ gh.op \in {"bringToFront", "sendToBack"}
    /\ gh.pre.op = gh.op
    /\ Len(cm.selectedZoneIds) = 2
    /\ LET zones == activeZones(dm)
           at(id) == CHOOSE i \in DOMAIN zones : zones[i].id = id
       IN  /\ at(cm.selectedZoneIds[2]) < at(cm.selectedZoneIds[1])
           /\ zones # StoredRow

(***************************************************************************)
(* C32: after a schedule-activity link is removed from a shape             *)
(* (disconnectActivity), the shape's startDate and endDate equal the       *)
(* minimum start and maximum end over the activities still linked, so no   *)
(* date of the removed activity remains in the range unless a remaining    *)
(* activity supplies it.                                                   *)
(***************************************************************************)
Starts(list) == {list[i].start : i \in DOMAIN list} \ {NoDate}

Ends(list) == {list[i].end : i \in DOMAIN list} \ {NoDate}

\* date is the earliest of the dates, or no date when there is none
Earliest(date, dates) ==
    IF dates = {} THEN date = NoDate
    ELSE date \in dates /\ \A other \in dates : ~dateLess(other, date)

\* date is the latest of the dates, or no date when there is none
Latest(date, dates) ==
    IF dates = {} THEN date = NoDate
    ELSE date \in dates /\ \A other \in dates : ~dateLess(date, other)

DisconnectRecalculatesRange ==
    gh.op = "disconnect"
    => LET zone == getZone(dm, gh.target)
       IN  /\ Len(zone.connectedActivities.list)
                = Len(getZone(gh.pre.dm, gh.target).connectedActivities.list) - 1
           /\ Earliest(zone.startDate, Starts(zone.connectedActivities.list))
           /\ Latest(zone.endDate, Ends(zone.connectedActivities.list))

\* as long as an activity remains linked, the range is recalculated
DisconnectRecalculatesRemaining ==
    (gh.op = "disconnect" /\ getZone(dm, gh.target).connectedActivities.list # <<>>)
    => LET zone == getZone(dm, gh.target)
       IN  /\ Earliest(zone.startDate, Starts(zone.connectedActivities.list))
           /\ Latest(zone.endDate, Ends(zone.connectedActivities.list))

(***************************************************************************)
(* C38: undo after linking a schedule activity to a shape by drop          *)
(* (handleDrop) restores that shape's linked-activity list                 *)
(* (customData._connectedActivities) and date range to their pre-link      *)
(* values, for the first and for every later link: the history snapshot    *)
(* recorded for the link never already contains the newly linked activity. *)
(***************************************************************************)
UndoRestoresLinks ==
    gh.linked.phase = "undone"
    => LET zone == getZone(dm, gh.linked.zone.id)
       IN  /\ zone.connectedActivities.list = gh.linked.zone.connectedActivities.list
           /\ zone.startDate = gh.linked.zone.startDate
           /\ zone.endDate = gh.linked.zone.endDate

\* the undo of the first link of a shape restores the shape
UndoRestoresFirstLink ==
    (gh.linked.phase = "undone" /\ ~gh.linked.zone.connectedActivities.defined)
    => getZone(dm, gh.linked.zone.id) = gh.linked.zone

(***************************************************************************)
(* C33: in every reachable state every id in the selection set             *)
(* selectedZoneIds, and the primary id selectedZoneId, names a shape       *)
(* present in the active layout's shape list: undo, redo, shape deletion   *)
(* and active-layout switches never leave a stale id selected.             *)
(***************************************************************************)
SelectionInActiveLayout ==
    /\ \A i \in DOMAIN cm.selectedZoneIds : getZone(dm, cm.selectedZoneIds[i]) # NoZone
    /\ cm.selectedZoneId # NoId => getZone(dm, cm.selectedZoneId) # NoZone

(***************************************************************************)
(* C34: whenever the selection set selectedZoneIds is non-empty the        *)
(* primary id selectedZoneId is one of its members, and it is null when    *)
(* the set is empty; consequently a rotate started on the rotation handle  *)
(* of the single selected shape changes the rotation of that shape and of  *)
(* no other shape.                                                         *)
(***************************************************************************)
PrimaryIsMember ==
    IF cm.selectedZoneIds = <<>> THEN cm.selectedZoneId = NoId
    ELSE cm.selectedZoneId \in SeqToSet(cm.selectedZoneIds)

\* a move of a rotate gesture leaves every shape but the selected one as
\* it was
RotateTurnsSelected ==
    (gh.op = "mousemove" /\ gh.pre.cm.isRotating /\ Len(gh.pre.cm.selectedZoneIds) = 1)
    => \A i \in DOMAIN activeZones(dm) :
            activeZones(dm)[i].id # gh.pre.cm.selectedZoneIds[1]
            => activeZones(dm)[i] = getZone(gh.pre.dm, activeZones(dm)[i].id)

PrimaryIsSelected == PrimaryIsMember /\ RotateTurnsSelected

(***************************************************************************)
(* C35: in every reachable state at most one of the interaction flags      *)
(* isDrawing, isDragging, isResizing, isRotating, isPanning and            *)
(* isSizingSymbol is set, for any sequence of press, move, release, key,   *)
(* tool-switch and symbol-drop events (including a release that never      *)
(* reaches the canvas), and after a release in the select tool none of     *)
(* isDragging, isResizing, isRotating, isPanning is set.                   *)
(***************************************************************************)
FlagsSet ==
    {f \in {"isDrawing", "isDragging", "isResizing", "isRotating", "isPanning",
            "isSizingSymbol"} : cm[f]}

\* the canvas release handler leaves no gesture flag of the select tool set
ReleaseClearsFlags ==
    (gh.op = "mouseup" /\ cm.activeTool = "select")
    => FlagsSet \cap {"isDragging", "isResizing", "isRotating", "isPanning"} = {}

OneInteractionAtATime ==
    /\ Cardinality(FlagsSet) <= 1
    /\ ReleaseClearsFlags

(***************************************************************************)
(* C36: completing a multi-point draw that was started from an empty       *)
(* buffer (after a tool switch via setTool or after Escape) always adds    *)
(* one new shape and leaves every existing shape's vertex list unchanged;  *)
(* finishPolygon rewrites an existing polyline only when an extend begun   *)
(* on that polyline runs to completion with no intervening Escape or tool  *)
(* switch.                                                                 *)
(***************************************************************************)
\* the last event finished a multi-point draw and stored its result
DrawCompleted ==
    /\ gh.op \in {"mousedown", "enter"}
    /\ gh.pre.cm.isDrawing
    /\ gh.pre.cm.activeTool \in PolyTools
    /\ ~cm.isDrawing
    /\ dm.history # gh.pre.dm.history

FreshDrawAddsShape ==
    (DrawCompleted /\ ~gh.extend.done)
    => /\ Len(activeZones(dm)) = Len(activeZones(gh.pre.dm)) + 1
       /\ \A i \in DOMAIN activeZones(gh.pre.dm) :
            /\ activeZones(dm)[i].id = activeZones(gh.pre.dm)[i].id
            /\ activeZones(dm)[i].points = activeZones(gh.pre.dm)[i].points

(***************************************************************************)
(* C37: when the top undo entry is tagged with a layout other than the     *)
(* active one (shapes were edited in layout A, then the user switched to   *)
(* layout B), undo() followed by redo() restores the active layout id and  *)
(* every layout's shape list to their pre-undo values; in particular       *)
(* layout A's latest edits are not lost.                                   *)
(***************************************************************************)
\* the undo() popped an entry of a layout other than the active one
UndoneAcrossLayouts ==
    /\ gh.undone.state = "undoredo"
    /\ gh.undone.history[Len(gh.undone.history)].layoutId # gh.undone.active

CrossLayoutUndoRedoRestores ==
    UndoneAcrossLayouts
    => /\ dm.activeLayoutId = gh.undone.active
       /\ Len(dm.layouts) = Len(gh.undone.layouts)
       /\ \A i \in DOMAIN dm.layouts :
            /\ dm.layouts[i].id = gh.undone.layouts[i].id
            /\ dm.layouts[i].zones = gh.undone.layouts[i].zones

\* the active layout id and the active layout's shapes do come back
CrossLayoutUndoRedoRestoresActive ==
    UndoneAcrossLayouts
    => /\ dm.activeLayoutId = gh.undone.active
       /\ activeZones(dm) = gh.undone.zones

(***************************************************************************)
(* C39: the view (scale, pan) the user leaves in layout A is the view      *)
(* restored on return to A, even when the user switches to layout B before *)
(* the debounced view-state write (500 ms after the last pan/zoom) has     *)
(* fired: the delayed write never drops A's view state and never stores    *)
(* one layout's view state in another layout.                              *)
(***************************************************************************)
LeftViewRestored ==
    gh.returned.id # NoId
    => /\ getActiveLayout(dm).id = gh.returned.id
       /\ cm.scale = gh.returned.scale
       /\ panOf(cm) = gh.returned.pan

\* the view of a layout left while no write was pending is restored
SavedViewRestored ==
    [][(/\ getActiveLayout(dm').id # getActiveLayout(dm).id
        /\ gh.left.id = getActiveLayout(dm').id
        /\ ~cm.saveTimer
        /\ \A i \in DOMAIN dm.layouts :
                dm.layouts[i].id = gh.left.id
                => (dm.layouts[i].scale = gh.left.scale /\ dm.layouts[i].pan = gh.left.pan))
       => (cm'.scale = gh.left.scale /\ panOf(cm') = gh.left.pan)]_vars

\* the delayed write stores the view shown, which is the active layout's
WriteStoresShownView ==
    [][gh'.op = "saveView"
       => /\ getActiveLayout(dm').scale = cm.scale
          /\ getActiveLayout(dm').pan = panOf(cm)
          /\ \A i \in DOMAIN dm.layouts :
                dm.layouts[i].id # dm.activeLayoutId => dm'.layouts[i] = dm.layouts[i]]_vars

(***************************************************************************)
(* C40: the calibration factor stored for a layout is always a finite      *)
(* number greater than zero: a calibrate gesture whose entered real-world  *)
(* length is zero, negative, empty or non-numeric leaves the layout's      *)
(* calibration factor unchanged, so length and area measurements never     *)
(* divide by zero or by a non-positive factor.                             *)
(***************************************************************************)
\* distPixels / meters is finite and greater than zero
PositiveFactor(cal) == cal.d2 > 0 /\ cal.meters > 0

CalibrationFactorPositive ==
    /\ \A i \in DOMAIN dm.layouts : PositiveFactor(dm.layouts[i].calibrationScale)
    /\ (gh.op = "mouseup" /\ gh.pre.cm.activeTool = "calibrate" /\ gh.pre.cm.isDrawing
            /\ (~gh.answer.ok \/ gh.answer.meters <= 0))
        => \A i \in DOMAIN dm.layouts :
                dm.layouts[i].calibrationScale = gh.pre.dm.layouts[i].calibrationScale

\* a length without digits, an empty one or a cancelled prompt leaves the
\* factor as it was
UnreadableLengthIgnored ==
    (gh.op = "mouseup" /\ gh.pre.cm.activeTool = "calibrate" /\ gh.pre.cm.isDrawing
        /\ ~gh.answer.ok)
    => \A i \in DOMAIN dm.layouts :
            dm.layouts[i].calibrationScale = gh.pre.dm.layouts[i].calibrationScale

====
